---- MODULE Spec2Model ----
(***************************************************************************)
(* A model of the jobworker supervisor of tjper/teleport: the job          *)
(* lifecycle (job.Service.StartJob, StopJob, Close, the waiter and writer  *)
(* goroutines of a Job), the re-exec child and the target command as OS    *)
(* processes, the output watcher's broadcaster, the followers of           *)
(* Job.StreamOutput with their consumers, concurrent status readers and    *)
(* the gRPC handlers Stop, Status and Output.                              *)
(*                                                                         *)
(* Every goroutine and every process is a little state machine with its    *)
(* own position (a "pc" variable); one action is one step of one of them.  *)
(* Steps are cut where the source releases a lock, calls another package   *)
(* or blocks, so that every interleaving the Go scheduler and the kernel   *)
(* can produce is an interleaving of the actions.                          *)
(***************************************************************************)
EXTENDS Integers, Sequences, FiniteSets, TLC

(***************************************************************************)
(* Bounds of the model.                                                    *)
(***************************************************************************)
\* Number of bytes the target command writes at most.
MaxLog == 2
\* Largest chunk size a caller of StreamOutput passes.
MaxChunk == 2

\* The jobs of the model. Every job is built by job.New with a fresh UUID,
\* so that job IDs are distinct; jobs share the Service only.
Jobs == {"j1"}
\* The followers (callers of Job.StreamOutput) of the model.
Followers == {"f1"}
\* The callers of ModWatcher.WaitUntil.
Waiters == {"w1", "w2"}
\* The callers of Watcher.Close.
Closers == {"c1", "c2"}
\* Number of watch descriptors the kernel hands out at most, and of events
\* it queues at most.
MaxWd == 3
MaxQueue == 2
\* Largest value of a limit of a cgroup; 0 is a limit that is not set.
MaxLimit == 1
\* Number of processes that are ever in the cgroup RemoveCgroup removes.
MaxPid == 3
\* The files of the watcher's model and the paths to them: "a" and "a2" are
\* two paths of one file (a second link); "b" is another file.
Files == {"fa", "fb"}
WatchPaths == {"a", "a2", "b"}
FileOf(p) == IF p = "b" THEN "fb" ELSE "fa"

(***************************************************************************)
(* Program constants.                                                      *)
(***************************************************************************)
\* job.go: noExit, the exit code of a job that has not exited with a code.
noExit == -1
\* reexec: CommandSuccess and CommandFailure.
CommandSuccess == 0
CommandFailure == 100
\* grpc/server.go: streamBuffer, the capacity of the Output chunk channel.
streamBuffer == 16

\* job.go: type Status.
Pending == "pending"
Running == "running"
Stopped == "stopped"
Exited == "exited"
Terminal == {Stopped, Exited}

\* syscall.WaitStatus.ExitStatus() of a process killed by a signal.
Signaled == -1
\* How the target command can end: exit status 0 or 1, or killed by a signal.
TargetEnds == {0, 1, Signaled}

VARIABLES
  \* job.Service
  healthy,      \* Service.healthy
  registry,     \* the keys of Service.jobs
  closePc,      \* position of Service.Close: "idle", "flipped", "done"
  crashed,      \* TRUE once a goroutine of the supervisor has panicked
  \* Job (the copy StartJob stores in the registry), per job
  status,       \* Job.status
  exitCode,     \* Job.exitCode
  cancelled,    \* Job.ctx is done
  sj,           \* position of StartJob for this job
  wpc,          \* position of the waiter goroutine
  writer,       \* position of the goroutine writing the command pipe
  cmdLive,      \* a write end of the command pipe is open
  cmdData,      \* the job descriptor has been written into the command pipe
  contLive,     \* a write end of the continue pipe is open
  placed,       \* PlaceInCgroup has succeeded
  continued,    \* signalContinue has closed the continue pipe
  cancelFirst,  \* Job.ctx was done when signalContinue closed the pipe
  cg,           \* the job's cgroup: "none", "created", "removed"
  \* OS processes, per job
  child,        \* position of the re-exec child
  childExit,    \* ProcessState.ExitCode() of the child: noExit or 0..255
  target,       \* "none", "running", "exited"
  targetEnd,    \* WaitStatus.ExitStatus() of the target: Signaled or a code
  log,          \* the bytes of the output file
  \* output watcher, per job
  evPending,    \* an unread inotify event is queued on the watcher
  bpc,          \* position of readWatcherEvents: "run", "done"
  \* a follower: one call of Job.StreamOutput and the consumer of its channel
  fpc,          \* position of StreamOutput
  fjob,         \* the job it follows
  fsnap,        \* status field of the Job value StreamOutput was called on
  fcs,          \* chunkSize
  foff,         \* offset of the follower's file descriptor
  fbuf,         \* contents of the buffer b
  fn,           \* n of the last Read
  fchan,        \* the stream channel: the lengths of the queued slices of b
  fcancel,      \* the follower's context is cancelled
  cpc,          \* position of the consumer: "recv", "hold", "done"
  chold,        \* length of the slice of b the consumer holds
  delivered,    \* the bytes the consumer has passed on, in order
  \* a concurrent reader of Job.Status() and then Job.ExitCode()
  reader,
  \* what callers have seen (history, read by the properties only)
  stopOk,       \* StopJob has cancelled this job when it was Running
  stopErr,      \* per job ID, the error of the last StopJob call, or nil
  resp,         \* the last response of a gRPC handler
  stopCodes,    \* per job, the codes of the Stop requests sent for it
  \* the file system the supervisor leaves behind
  built,        \* the jobs job.New has built: each has its output file
  outRoot,      \* the output root directory exists
  cgBase,       \* the jobworker cgroup base directory exists
  cleanPc,      \* position of cgroup Service.Cleanup
  cleanList,    \* the cgroups (by job) the walk of Cleanup has listed
  \* a second StartJob call that carries the Job of a call already made
  dpc,          \* position of that call
  dcg,          \* the cgroup that call has created: "none", "created"
  held,         \* whose copy of the Job the registry holds: "main", "dup"
  \* the Start handler and the identity lookup
  rq,           \* per job, the Start request that has built it
  who,          \* the last result of user.Service.User
  \* a re-exec child run by itself
  xc,           \* its environment and how reexec.Exec has ended in it
  \* an fsnotify.Watcher and the inotify instance of the kernel behind it
  watches,      \* Watcher.watches: path -> watch descriptor (0: no entry)
  paths,        \* Watcher.paths: watch descriptor -> path ("": no entry)
  kwatch,       \* the kernel's watches: descriptor -> file ("none": free)
  nextWd,       \* the next watch descriptor the kernel hands out
  kq,           \* the events queued on the inotify descriptor
  alive,        \* the files that exist
  fsRet,        \* the last call of AddWatch or RemoveWatch and its result
  \* cgroup Service.CreateCgroup called by itself
  cgc,          \* its options, the file system it met and what it has left
  \* cgroup Service.RemoveCgroup called by itself on a cgroup with leaves
  procs,        \* per PID, the cgroup of the process: a leaf, "root", or
                \* "unborn" or "gone" for a process that is not there
  leafDirs,     \* the leaf directories of the cgroup that exist
  cgDir,        \* the directory of the cgroup exists
  rm,           \* Cgroup.remove: its position, the PIDs it has read and not
                \* yet written, the leaves it has listed, and its history
  \* a watch.ModWatcher, its Watch goroutine and the callers of WaitUntil
  listeners,    \* the keys of ModWatcher.listeners, by caller
  modification, \* per caller, the number of signals in its channel (0 or 1)
  wu,           \* per caller, the position of WaitUntil
  wres,         \* per caller, what WaitUntil has chosen to return
  wctx,         \* per caller, its context is cancelled
  bc,           \* broadcast: it holds the read lock, the listeners it has
                \* not sent to yet, the one whose send it is in
  whist,        \* per caller: what came first, the cancellation or a signal,
                \* and whether a signal was sent to it (history)
  \* the closing of the fsnotify.Watcher
  done,         \* Watcher.done is closed
  closed,       \* readEvents has returned: Events and Watcher.closed are closed
  clpc,         \* per caller, the position of Close
  wfault,       \* a goroutine of the Watcher has panicked
  \* what job.New has opened
  fds           \* per job, the pipe ends and watchers New has opened for it
                \* that neither New nor a cleanup() has closed

svcVars == <<healthy, registry, closePc, crashed>>
jobVars == <<status, exitCode, cancelled, sj, wpc, writer, cmdLive, cmdData,
             contLive, placed, continued, cancelFirst, cg>>
procVars == <<child, childExit, target, targetEnd, log>>
watchVars == <<evPending, bpc>>
followVars == <<fpc, fjob, fsnap, fcs, foff, fbuf, fn, fchan, fcancel, cpc,
                chold, delivered>>
callVars == <<reader, stopOk, stopErr, resp, stopCodes>>
shutVars == <<built, outRoot, cgBase, cleanPc, cleanList>>
dupVars == <<dpc, dcg, held>>
fsVars == <<watches, paths, kwatch, nextWd, kq, alive, fsRet>>
createVars == <<cgc>>
removeVars == <<procs, leafDirs, cgDir, rm>>
modVars == <<listeners, modification, wu, wres, wctx, bc, whist>>
closeVars == <<done, closed, clpc, wfault>>
unit2Vars == <<createVars, removeVars, modVars, closeVars, fds>>
unitVars == <<rq, who, xc, fsVars, unit2Vars>>
vars == <<svcVars, jobVars, procVars, watchVars, followVars, callVars,
          shutVars, dupVars, unitVars>>

\* No reader has read anything; no gRPC response has been sent; no Start
\* request has built the job; user.Service.User has not been called.
NoReader == [pc |-> "idle"]
NoResp == [op |-> "none"]
NoReq == [pc |-> "none"]
NoWho == [called |-> FALSE]
\* reexec.Exec has not run.
NoExec == [called |-> FALSE]

(***************************************************************************)
(* job.New                                                                 *)
(***************************************************************************)
\* job.go:73 status: Pending
NewStatus == Pending
\* A constructor that starts the exit code at zero, the zero value of the
\* field, instead of noExit.
ZeroExitCode == CommandSuccess
\* job.go:74 exitCode: noExit
NewExitCode == noExit

\* job.go:34-47, 49 and 266: the pipe ends and the two watchers New makes,
\* in its five steps that can fail: the command pipe, the continue pipe,
\* the watcher of line 49, os.Executable, setupOutputWatcher.
NewOpens ==
  << {"cmdOut", "cmdIn"}, {"continueOut", "continueIn"}, {"watcher"}, {},
     {"j.watcher"} >>
\* job.go:23-91: New, as what it leaves open. failAt is the step that fails
\* (0: none). The failure of the continue pipe, of os.Executable and of
\* setupOutputWatcher calls cleanup(), which closes the closers; a watcher
\* that setupOutputWatcher had made it has closed itself (job.go:271-274).
\* The failure of NewWatcher returns without it (job.go:50-52).
New(failAt) ==
  LET opened == UNION {NewOpens[i] : i \in 1..(IF failAt = 0 THEN 5
                                                ELSE failAt - 1)}
  IN [ok |-> failAt = 0,
      open |-> IF failAt \in {2, 4, 5} THEN {} ELSE opened]

\* job.go:197-214: what cleanup() closes: the watcher of the Job and the
\* four pipe ends.
CleanupCloses == {"j.watcher", "cmdIn", "cmdOut", "continueIn", "continueOut"}

Init ==
  /\ built \in SUBSET Jobs
  /\ fds = [j \in Jobs |-> IF j \in built THEN New(0).open ELSE {}]
  /\ outRoot = TRUE
  /\ cgBase = TRUE
  /\ cleanPc = "idle"
  /\ cleanList = {}
  /\ dpc = [j \in Jobs |-> "new"]
  /\ dcg = [j \in Jobs |-> "none"]
  /\ held = [j \in Jobs |-> "main"]
  /\ rq = [j \in Jobs |-> NoReq]
  /\ who = NoWho
  /\ xc = NoExec
  /\ watches = [p \in WatchPaths |-> 0]
  /\ paths = [wd \in 1..MaxWd |-> ""]
  /\ kwatch = [wd \in 1..MaxWd |-> "none"]
  /\ nextWd = 1
  /\ kq = <<>>
  /\ alive = Files
  /\ fsRet = [op |-> "none"]
  /\ cgc = [called |-> FALSE]
  /\ procs = [p \in 1..MaxPid |-> IF p = 1 THEN "l1" ELSE IF p = 2 THEN "l2"
                                   ELSE "unborn"]
  /\ leafDirs = {"l1", "l2"}
  /\ cgDir = TRUE
  /\ rm = [pc |-> "idle", pids |-> {}, found |-> {}, moved |-> {},
           leaves |-> {}, raced |-> FALSE]
  /\ listeners = {}
  /\ modification = [w \in Waiters |-> 0]
  /\ wu = [w \in Waiters |-> "idle"]
  /\ wres = [w \in Waiters |-> "none"]
  /\ wctx = [w \in Waiters |-> FALSE]
  /\ bc = [held |-> FALSE, todo |-> {}, cur |-> "none"]
  /\ whist = [w \in Waiters |-> [first |-> "none", got |-> FALSE]]
  /\ done = FALSE
  /\ closed = FALSE
  /\ clpc = [c \in Closers |-> "idle"]
  /\ wfault = FALSE
  /\ healthy = TRUE
  /\ registry = {}
  /\ closePc = "idle"
  /\ crashed = FALSE
  /\ status = [j \in Jobs |-> NewStatus]
  /\ exitCode = [j \in Jobs |-> NewExitCode]
  /\ cancelled = [j \in Jobs |-> FALSE]
  /\ sj = [j \in Jobs |-> "new"]
  /\ wpc = [j \in Jobs |-> "none"]
  /\ writer = [j \in Jobs |-> "none"]
  /\ cmdLive = [j \in Jobs |-> TRUE]
  /\ cmdData = [j \in Jobs |-> FALSE]
  /\ contLive = [j \in Jobs |-> TRUE]
  /\ placed = [j \in Jobs |-> FALSE]
  /\ continued = [j \in Jobs |-> FALSE]
  /\ cancelFirst = [j \in Jobs |-> FALSE]
  /\ cg = [j \in Jobs |-> "none"]
  /\ child = [j \in Jobs |-> "none"]
  /\ childExit = [j \in Jobs |-> noExit]
  /\ target = [j \in Jobs |-> "none"]
  /\ targetEnd = [j \in Jobs |-> Signaled]
  /\ log = [j \in Jobs |-> <<>>]
  /\ evPending = [j \in Jobs |-> FALSE]
  /\ bpc = [j \in Jobs |-> "run"]
  /\ fpc = [f \in Followers |-> "idle"]
  /\ fjob = [f \in Followers |-> CHOOSE j \in Jobs : TRUE]
  /\ fsnap = [f \in Followers |-> NewStatus]
  /\ fcs = [f \in Followers |-> 1]
  /\ foff = [f \in Followers |-> 0]
  /\ fbuf = [f \in Followers |-> <<>>]
  /\ fn = [f \in Followers |-> 0]
  /\ fchan = [f \in Followers |-> <<>>]
  /\ fcancel = [f \in Followers |-> FALSE]
  /\ cpc = [f \in Followers |-> "recv"]
  /\ chold = [f \in Followers |-> 0]
  /\ delivered = [f \in Followers |-> <<>>]
  /\ reader = NoReader
  /\ stopOk = [j \in Jobs |-> FALSE]
  /\ stopErr = [j \in Jobs |-> "nil"]
  /\ resp = NoResp
  /\ stopCodes = [j \in Jobs |-> <<>>]

\* The supervisor process runs: no goroutine of it has panicked.
Up == ~crashed

(***************************************************************************)
(* Service.StartJob, one action per step between two points where another  *)
(* goroutine can run.                                                      *)
(***************************************************************************)
\* service.go:72-74: the isHealthy check.
SJ_Check(j) ==
  /\ Up /\ sj[j] = "new" /\ j \in built
  /\ sj' = [sj EXCEPT ![j] = IF healthy THEN "checked" ELSE "ret_closing"]
  /\ UNCHANGED <<unitVars, shutVars, dupVars, svcVars, status, exitCode, cancelled, wpc, writer, cmdLive,
                 cmdData, contLive, placed, continued, cancelFirst, cg,
                 procVars, watchVars, followVars, callVars>>

\* service.go:77-79: the duplicate check, a Load of the registry.
SJ_Load(j) ==
  /\ Up /\ sj[j] = "checked"
  /\ sj' = [sj EXCEPT ![j] = IF j \in registry THEN "ret_dup" ELSE "loaded"]
  /\ UNCHANGED <<unitVars, shutVars, dupVars, svcVars, status, exitCode, cancelled, wpc,
                 writer, cmdLive, cmdData, contLive, placed, continued,
                 cancelFirst, cg, procVars, watchVars, followVars, callVars>>

\* service.go:80: the Store, which puts a pointer to this call's copy of
\* the Job into the registry, over whatever the key held.
SJ_Store(j) ==
  /\ Up /\ sj[j] = "loaded"
  /\ sj' = [sj EXCEPT ![j] = "stored"]
  /\ registry' = registry \cup {j}
  /\ held' = [held EXCEPT ![j] = "main"]
  /\ UNCHANGED <<unitVars, shutVars, dpc, dcg, healthy, closePc, crashed, status,
                 exitCode, cancelled, wpc, writer, cmdLive, cmdData, contLive,
                 placed, continued, cancelFirst, cg, procVars, watchVars,
                 followVars, callVars>>

\* cgroup/cgroup.go:73-76: os.Mkdir of the cgroup's directory, which fails
\* when the base directory is gone and may fail for the file system's own
\* reasons.
MkdirOutcomes == IF cgBase THEN BOOLEAN ELSE {FALSE}

\* service.go:82-85: CreateCgroup, which the cgroup file system lets succeed
\* or fail.
SJ_CreateCgroup(j) ==
  /\ Up /\ sj[j] = "stored"
  /\ \E ok \in MkdirOutcomes :
       IF ok
         THEN /\ cg' = [cg EXCEPT ![j] = "created"]
              /\ sj' = [sj EXCEPT ![j] = "cgroup"]
         ELSE /\ sj' = [sj EXCEPT ![j] = "ret_err"]
              /\ UNCHANGED cg
  /\ UNCHANGED <<unitVars, shutVars, dupVars, svcVars, status, exitCode, cancelled, wpc, writer, cmdLive,
                 cmdData, contLive, placed, continued, cancelFirst, procVars,
                 watchVars, followVars, callVars>>

\* job.go:248: the status start() sets once the child has been started.
StartStatus == Running

\* service.go:71 and 80: StartJob takes the Job by value and stores a
\* pointer to its parameter, so that start(), wait() and every later
\* setStatus and setExitCode work on that copy. The Job value of the caller
\* keeps the status and the exit code New has given it.
CallerStatus(j) == NewStatus
CallerExitCode(j) == NewExitCode

\* service.go:87-103 and job.go:217-252: job.start() and the launch of the
\* waiter. exec.Cmd.Start fails when the context of the command is already
\* done, and when the fork fails. On success the writer goroutine and the
\* waiter goroutine exist and the status is Running.
SJ_Start(j) ==
  /\ Up /\ sj[j] = "cgroup"
  /\ \E forked \in BOOLEAN :
       IF forked /\ ~cancelled[j]
         THEN /\ child' = [child EXCEPT ![j] = "readcmd"]
              /\ writer' = [writer EXCEPT ![j] = "run"]
              /\ status' = [status EXCEPT ![j] = StartStatus]
              /\ wpc' = [wpc EXCEPT ![j] = "waiting"]
              /\ sj' = [sj EXCEPT ![j] = "started"]
         ELSE /\ sj' = [sj EXCEPT ![j] = "ret_err"]
              /\ UNCHANGED <<child, writer, status, wpc>>
  /\ UNCHANGED <<unitVars, shutVars, dupVars, svcVars, exitCode, cancelled, cmdLive, cmdData, contLive,
                 placed, continued, cancelFirst, cg, childExit, target,
                 targetEnd, log, watchVars, followVars, callVars>>

\* service.go:105-109: PlaceInCgroup writes the child's PID into the cgroup;
\* when the write fails the job is stopped.
SJ_Place(j) ==
  /\ Up /\ sj[j] = "started"
  /\ \E ok \in BOOLEAN :
       IF ok
         THEN /\ placed' = [placed EXCEPT ![j] = TRUE]
              /\ sj' = [sj EXCEPT ![j] = "placed"]
              /\ UNCHANGED cancelled
         ELSE /\ cancelled' = [cancelled EXCEPT ![j] = TRUE]
              /\ sj' = [sj EXCEPT ![j] = "ret_err"]
              /\ UNCHANGED placed
  /\ UNCHANGED <<unitVars, shutVars, dupVars, svcVars, status, exitCode, wpc, writer, cmdLive, cmdData,
                 contLive, continued, cancelFirst, cg, procVars, watchVars,
                 followVars, callVars>>

\* service.go:111-116 and job.go:361-367: signalContinue closes the write end
\* of the continue pipe. Closing an *os.File that cleanup() has closed
\* already is an error, and the job is stopped.
SJ_Continue(j) ==
  /\ Up /\ sj[j] = "placed"
  /\ IF contLive[j]
       THEN /\ contLive' = [contLive EXCEPT ![j] = FALSE]
            /\ continued' = [continued EXCEPT ![j] = TRUE]
            /\ cancelFirst' = [cancelFirst EXCEPT ![j] = cancelled[j]]
            /\ sj' = [sj EXCEPT ![j] = "ret_ok"]
            /\ UNCHANGED cancelled
       ELSE /\ cancelled' = [cancelled EXCEPT ![j] = TRUE]
            /\ sj' = [sj EXCEPT ![j] = "ret_err"]
            /\ UNCHANGED <<contLive, continued, cancelFirst>>
  /\ UNCHANGED <<unitVars, shutVars, dupVars, svcVars, status, exitCode, wpc, writer, cmdLive, cmdData,
                 placed, cg, procVars, watchVars, followVars, callVars>>

\* job.go:226-246: the goroutine that writes the job descriptor into the
\* command pipe and closes it. The write fails on a pipe that cleanup() has
\* closed, and the job is stopped.
Writer(j) ==
  /\ Up /\ writer[j] = "run"
  /\ writer' = [writer EXCEPT ![j] = "done"]
  /\ IF cmdLive[j]
       THEN /\ cmdData' = [cmdData EXCEPT ![j] = TRUE]
            /\ cmdLive' = [cmdLive EXCEPT ![j] = FALSE]
            /\ UNCHANGED cancelled
       ELSE /\ cancelled' = [cancelled EXCEPT ![j] = TRUE]
            /\ UNCHANGED <<cmdData, cmdLive>>
  /\ UNCHANGED <<unitVars, shutVars, dupVars, svcVars, status, exitCode, sj, wpc, contLive, placed,
                 continued, cancelFirst, cg, procVars, watchVars, followVars,
                 callVars>>

(***************************************************************************)
(* The re-exec child (reexec.Exec) and the target command.                 *)
(***************************************************************************)
ChildAlive(j) == child[j] \in {"readcmd", "waitcont", "target"}

\* The child process ends with exit status c, or by a signal (noExit).
ChildEnds(j, c) ==
  /\ child' = [child EXCEPT ![j] = "exited"]
  /\ childExit' = [childExit EXCEPT ![j] = c]

\* os.Exit keeps the low eight bits of the code.
ExitByte(c) == c % 256

\* reexec.exitCode: CommandSuccess for a nil error, otherwise the
\* WaitStatus.ExitStatus() of the target, which is -1 for a signal.
reexecExitCode(e) == IF e = 0 THEN CommandSuccess ELSE e

\* Exec, lines 203-221: read the command pipe to end-of-file, which comes
\* when every write end is closed, decode the descriptor and open the log.
Child_ReadCmd(j) ==
  /\ child[j] = "readcmd" /\ ~cmdLive[j]
  /\ \E opened \in BOOLEAN :
       IF cmdData[j] /\ opened
         THEN /\ child' = [child EXCEPT ![j] = "waitcont"]
              /\ UNCHANGED childExit
         ELSE ChildEnds(j, CommandFailure)
  /\ UNCHANGED <<unitVars, shutVars, dupVars, svcVars, jobVars, target, targetEnd, log, watchVars,
                 followVars, callVars>>

\* Exec, lines 228-238 and waitForContinue: end-of-file on the continue pipe
\* lets the child start the target; cmd.Start may fail.
Child_Continue(j) ==
  /\ child[j] = "waitcont" /\ ~contLive[j]
  /\ \E started \in BOOLEAN :
       IF started
         THEN /\ child' = [child EXCEPT ![j] = "target"]
              /\ target' = [target EXCEPT ![j] = "running"]
              /\ UNCHANGED childExit
         ELSE /\ ChildEnds(j, CommandFailure)
              /\ UNCHANGED target
  /\ UNCHANGED <<unitVars, shutVars, dupVars, svcVars, jobVars, targetEnd, log, watchVars, followVars,
                 callVars>>

\* Exec, line 230 and waitForContinue, lines 263-268: ten seconds pass, the
\* descriptor is closed under the Read and the child gives up. The Close
\* wakes the Read of a descriptor in non-blocking mode only (see ContRead),
\* so that the step may never come: it has no fairness.
Child_Timeout(j) ==
  /\ child[j] = "waitcont"
  /\ ChildEnds(j, CommandFailure)
  /\ UNCHANGED <<unitVars, shutVars, dupVars, svcVars, jobVars, target, targetEnd, log, watchVars,
                 followVars, callVars>>

\* Exec, lines 240-241: the target has ended and the child exits with
\* exitCode(err).
Child_Reap(j) ==
  /\ child[j] = "target" /\ target[j] = "exited"
  /\ ChildEnds(j, ExitByte(reexecExitCode(targetEnd[j])))
  /\ UNCHANGED <<unitVars, shutVars, dupVars, svcVars, jobVars, target, targetEnd, log, watchVars,
                 followVars, callVars>>

\* The k-th byte the target writes. The bytes differ from each other, so
\* that a byte out of place shows.
OutputByte(k) == k

\* The target writes one byte to its stdout, the log file. The kernel queues
\* an inotify event while the supervisor watches the file; equal unread
\* events are merged into one.
Target_Write(j) ==
  /\ target[j] = "running" /\ Len(log[j]) < MaxLog
  /\ log' = [log EXCEPT ![j] = Append(@, OutputByte(Len(@) + 1))]
  /\ evPending' = [evPending EXCEPT ![j] = @ \/ (Up /\ wpc[j] # "done")]
  /\ UNCHANGED <<unitVars, shutVars, dupVars, svcVars, jobVars, child, childExit, target, targetEnd, bpc,
                 followVars, callVars>>

\* The target ends by itself, or by a signal that is not the supervisor's.
Target_End(j) ==
  /\ target[j] = "running"
  /\ \E e \in TargetEnds :
       /\ target' = [target EXCEPT ![j] = "exited"]
       /\ targetEnd' = [targetEnd EXCEPT ![j] = e]
  /\ UNCHANGED <<unitVars, shutVars, dupVars, svcVars, jobVars, child, childExit, log, watchVars,
                 followVars, callVars>>

\* The child is killed by a signal that is not the supervisor's (an
\* operator's kill, the kernel's OOM killer).
Child_Signal(j) ==
  /\ ChildAlive(j)
  /\ ChildEnds(j, noExit)
  /\ UNCHANGED <<unitVars, shutVars, dupVars, svcVars, jobVars, target, targetEnd, log,
                 watchVars, followVars, callVars>>

\* job.go:61-65: exec.CommandContext kills the child (os.Process.Kill, a
\* SIGKILL to the child's PID) from a goroutine of its own once Job.ctx is
\* done, as long as Wait has not returned. The target is another process.
Kill(j) ==
  /\ Up /\ cancelled[j] /\ ChildAlive(j)
  /\ ChildEnds(j, noExit)
  /\ UNCHANGED <<unitVars, shutVars, dupVars, svcVars, jobVars, target, targetEnd, log, watchVars,
                 followVars, callVars>>

(***************************************************************************)
(* The waiter goroutine of StartJob (service.go:90-103).                   *)
(***************************************************************************)
\* job.go:347-354: the status wait() gives a child that ended with `code`.
WaitStatus(code) == IF code = noExit THEN Stopped ELSE Exited

\* job.go:339-352: exec.Cmd.Wait returns when the child has ended. With an
\* error that is no ExitError wait() returns at once; otherwise it sets the
\* status, and for Exited the exit code in a second critical section.
W_Wait(j) ==
  /\ Up /\ wpc[j] = "waiting" /\ child[j] = "exited"
  /\ \E waitFailed \in BOOLEAN :
       IF waitFailed
         THEN /\ wpc' = [wpc EXCEPT ![j] = "remove"]
              /\ UNCHANGED status
         ELSE /\ status' = [status EXCEPT ![j] = WaitStatus(childExit[j])]
              /\ wpc' = [wpc EXCEPT ![j] =
                          IF WaitStatus(childExit[j]) = Exited
                            THEN "setcode" ELSE "remove"]
  /\ UNCHANGED <<unitVars, shutVars, dupVars, svcVars, exitCode, cancelled, sj, writer, cmdLive, cmdData,
                 contLive, placed, continued, cancelFirst, cg, procVars,
                 watchVars, followVars, callVars>>

\* job.go:353: setExitCode(code).
W_SetCode(j) ==
  /\ Up /\ wpc[j] = "setcode"
  /\ exitCode' = [exitCode EXCEPT ![j] = childExit[j]]
  /\ wpc' = [wpc EXCEPT ![j] = "remove"]
  /\ UNCHANGED <<unitVars, shutVars, dupVars, svcVars, status, cancelled, sj, writer, cmdLive, cmdData,
                 contLive, placed, continued, cancelFirst, cg, procVars,
                 watchVars, followVars, callVars>>

\* service.go:100-102: RemoveCgroup.
W_Remove(j) ==
  /\ Up /\ wpc[j] = "remove"
  /\ cg' = [cg EXCEPT ![j] = "removed"]
  /\ wpc' = [wpc EXCEPT ![j] = "cleanup"]
  /\ UNCHANGED <<unitVars, shutVars, dupVars, svcVars, status, exitCode, cancelled, sj, writer, cmdLive,
                 cmdData, contLive, placed, continued, cancelFirst, procVars,
                 watchVars, followVars, callVars>>

\* job.go:197-214: the deferred cleanup(): stop(), close the watcher, close
\* the four pipe ends.
W_Cleanup(j) ==
  /\ Up /\ wpc[j] = "cleanup"
  /\ cancelled' = [cancelled EXCEPT ![j] = TRUE]
  /\ cmdLive' = [cmdLive EXCEPT ![j] = FALSE]
  /\ contLive' = [contLive EXCEPT ![j] = FALSE]
  /\ evPending' = [evPending EXCEPT ![j] = FALSE]
  /\ wpc' = [wpc EXCEPT ![j] = "done"]
  /\ fds' = [fds EXCEPT ![j] = @ \ CleanupCloses]
  /\ UNCHANGED <<rq, who, xc, fsVars, createVars, removeVars, modVars,
                 closeVars, shutVars, dupVars, svcVars, status, exitCode, sj, writer, cmdData, placed,
                 continued, cancelFirst, cg, procVars, bpc, followVars,
                 callVars>>

(***************************************************************************)
(* Service.StopJob and Service.Close.                                      *)
(***************************************************************************)
\* A stop() that would record Stopped itself rather than leave the status
\* to the waiter.
StopSetsStopped(s) == Stopped
\* job.go:255-257: stop() cancels Job.ctx and leaves the status alone.
StatusAfterStop(s) == s

\* service.go:121-125 and job.go:182-186: Status() of the Job the registry
\* holds. The copy of a call whose start() did not succeed is Pending.
JobStatus(j) == IF held[j] = "dup" THEN NewStatus ELSE status[j]

\* A StopJob that stops a job whatever its status.
StopAlways(s) == TRUE
\* service.go:125-127: StopJob stops a job whose status is Running only.
StopApplies(s) == s = Running

\* service.go:120-132 and 168-180: StopJob. loadJob gives ErrJobNotFound for
\* an ID the registry does not hold; a job that is not Running is left
\* alone; a Running job is stopped, and the error is nil in both cases.
StopJob(j) ==
  /\ Up
  /\ IF j \notin registry
       THEN /\ stopErr' = [stopErr EXCEPT ![j] = "ErrJobNotFound"]
            /\ UNCHANGED <<cancelled, status, stopOk>>
       ELSE /\ stopErr' = [stopErr EXCEPT ![j] = "nil"]
            /\ IF StopApplies(JobStatus(j))
                 THEN /\ cancelled' = [cancelled EXCEPT ![j] = TRUE]
                      /\ status' = [status EXCEPT ![j] = StatusAfterStop(@)]
                      /\ stopOk' = [stopOk EXCEPT ![j] = TRUE]
                 ELSE UNCHANGED <<cancelled, status, stopOk>>
  /\ UNCHANGED <<unitVars, shutVars, dupVars, svcVars, exitCode, sj, wpc, writer,
                 cmdLive, cmdData, contLive, placed, continued, cancelFirst,
                 cg, procVars, watchVars, followVars, reader, resp,
                 stopCodes>>

\* service.go:142-144: Close flips healthy.
Close_Flip ==
  /\ Up /\ closePc = "idle"
  /\ healthy' = FALSE
  /\ closePc' = "flipped"
  /\ UNCHANGED <<unitVars, shutVars, dupVars, registry, crashed, jobVars, procVars, watchVars, followVars,
                 callVars>>

\* job.go:262 and output.File: the files of the output root. Every job that
\* New has built has its output file there, and nothing removes one.
OutputFiles == built

\* service.go:146-165: Close stops every job of the registry and calls
\* unix.Rmdir on the output root, which removes an empty directory only.
Close_Range ==
  /\ Up /\ closePc = "flipped"
  /\ cancelled' = [j \in Jobs |-> cancelled[j] \/ j \in registry]
  /\ outRoot' = (outRoot /\ OutputFiles # {})
  /\ closePc' = "done"
  /\ UNCHANGED <<unitVars, built, cgBase, cleanPc, cleanList, dupVars, healthy, registry, crashed, status, exitCode, sj, wpc,
                 writer, cmdLive, cmdData, contLive, placed, continued,
                 cancelFirst, cg, procVars, watchVars, followVars, callVars>>

(***************************************************************************)
(* readWatcherEvents, the broadcaster of a job (job.go:295-309).           *)
(***************************************************************************)
\* job.go:301-306: an event is taken and sent to every listener. No
\* listener is ever in Job.listeners (see F_Register), so that the loop
\* body never runs and the read lock is released at once.
B_Event(j) ==
  /\ Up /\ bpc[j] = "run" /\ evPending[j]
  /\ evPending' = [evPending EXCEPT ![j] = FALSE]
  /\ UNCHANGED <<unitVars, shutVars, dupVars, svcVars, jobVars, procVars, bpc, followVars, callVars>>

\* job.go:299-300: Job.ctx is done and the broadcaster returns.
B_Exit(j) ==
  /\ Up /\ bpc[j] = "run" /\ cancelled[j]
  /\ bpc' = [bpc EXCEPT ![j] = "done"]
  /\ UNCHANGED <<unitVars, shutVars, dupVars, svcVars, jobVars, procVars, evPending, followVars, callVars>>

Lifecycle ==
  \/ \E j \in Jobs :
       \/ SJ_Check(j) \/ SJ_Load(j) \/ SJ_Store(j)
       \/ SJ_CreateCgroup(j) \/ SJ_Start(j)
       \/ SJ_Place(j) \/ SJ_Continue(j) \/ Writer(j)
       \/ Child_ReadCmd(j) \/ Child_Continue(j) \/ Child_Timeout(j)
       \/ Child_Reap(j) \/ Child_Signal(j)
       \/ Target_Write(j) \/ Target_End(j) \/ Kill(j)
       \/ W_Wait(j) \/ W_SetCode(j) \/ W_Remove(j) \/ W_Cleanup(j)
       \/ StopJob(j) \/ B_Event(j) \/ B_Exit(j)
  \/ Close_Flip \/ Close_Range

(***************************************************************************)
(* Job.StreamOutput (job.go:131-179), called on a Job of the registry, and *)
(* the consumer of its channel (grpc/server.go:332-337).                   *)
(***************************************************************************)
Min(a, b) == IF a < b THEN a ELSE b

\* The chunk sizes a caller passes.
ChunkSizes == 1..MaxChunk

\* job.go:145: b := make([]byte, chunkSize), zeroed.
NewBuffer(cs) == [i \in 1..cs |-> 0]

\* job.go:147: fd.Read(b) with n bytes at hand: the first n bytes of b are
\* overwritten with the bytes of the file from the offset on.
ReadInto(b, bytes, off, n) ==
  [i \in 1..Len(b) |-> IF i <= n THEN bytes[off + i] ELSE b[i]]

\* job.go:131 and 161: StreamOutput has a value receiver, so that j.Status()
\* in it reads the status field of the Job value copied at the call.
StreamStatus(f) == fsnap[f]

\* job.go:131-145: the call, and the opening of the log file.
F_Open(f) ==
  /\ Up /\ fpc[f] = "idle"
  /\ \E j \in registry, cs \in ChunkSizes :
       /\ fjob' = [fjob EXCEPT ![f] = j]
       /\ fsnap' = [fsnap EXCEPT ![f] = status[j]]
       /\ fcs' = [fcs EXCEPT ![f] = cs]
       /\ fbuf' = [fbuf EXCEPT ![f] = NewBuffer(cs)]
  /\ fpc' = [fpc EXCEPT ![f] = "read"]
  /\ UNCHANGED <<unitVars, shutVars, dupVars, svcVars, jobVars, procVars, watchVars, foff, fn, fchan,
                 fcancel, cpc, chold, delivered, callVars>>

\* job.go:147-174: one Read. With bytes at hand the follower goes on to the
\* send; at end-of-file it returns the context's error when its context is
\* cancelled, goes to waitForOutput when j.Status() is Running and returns
\* nil otherwise.
F_Read(f) ==
  /\ Up /\ fpc[f] = "read"
  /\ LET n == Min(fcs[f], Len(log[fjob[f]]) - foff[f]) IN
       IF n > 0
         THEN /\ fbuf' = [fbuf EXCEPT ![f] = ReadInto(@, log[fjob[f]], foff[f], n)]
              /\ fn' = [fn EXCEPT ![f] = n]
              /\ foff' = [foff EXCEPT ![f] = @ + n]
              /\ fpc' = [fpc EXCEPT ![f] = "send"]
         ELSE /\ fpc' = [fpc EXCEPT ![f] =
                          IF fcancel[f] THEN "done_err"
                          ELSE IF StreamStatus(f) = Running THEN "register"
                          ELSE "done_ok"]
              /\ UNCHANGED <<fbuf, fn, foff>>
  /\ UNCHANGED <<unitVars, shutVars, dupVars, svcVars, jobVars, procVars, watchVars, fjob, fsnap, fcs,
                 fchan, fcancel, cpc, chold, delivered, callVars>>

\* job.go:150-159: the slice b[:n] is put on the channel when it has room;
\* a cancelled follower returns after it.
F_Send(f) ==
  /\ Up /\ fpc[f] = "send" /\ Len(fchan[f]) < streamBuffer
  /\ fchan' = [fchan EXCEPT ![f] = Append(@, fn[f])]
  /\ fpc' = [fpc EXCEPT ![f] = IF fcancel[f] THEN "done_err" ELSE "read"]
  /\ UNCHANGED <<unitVars, shutVars, dupVars, svcVars, jobVars, procVars, watchVars, fjob, fsnap, fcs,
                 foff, fbuf, fn, fcancel, cpc, chold, delivered, callVars>>

\* job.go:151-152: the select takes the cancellation instead of the send.
F_SendCancelled(f) ==
  /\ Up /\ fpc[f] = "send" /\ fcancel[f]
  /\ fpc' = [fpc EXCEPT ![f] = "done_err"]
  /\ UNCHANGED <<unitVars, shutVars, dupVars, svcVars, jobVars, procVars, watchVars, fjob, fsnap, fcs,
                 foff, fbuf, fn, fchan, fcancel, cpc, chold, delivered,
                 callVars>>

\* The pipes of a process that dies are closed by the kernel.
Panic ==
  /\ crashed' = TRUE
  /\ cmdLive' = [j \in Jobs |-> FALSE]
  /\ contLive' = [j \in Jobs |-> FALSE]

\* job.go:313-319: waitForOutput stores its channel in Job.listeners. New
\* (job.go:68-82) never makes that map, so that the store is an assignment
\* to an entry of a nil map: the goroutine panics and the supervisor dies.
F_Register(f) ==
  /\ Up /\ fpc[f] = "register"
  /\ Panic
  /\ fpc' = [fpc EXCEPT ![f] = "fault"]
  /\ UNCHANGED <<unitVars, shutVars, dupVars, healthy, registry, closePc, status, exitCode, cancelled, sj,
                 wpc, writer, cmdData, placed, continued, cancelFirst, cg,
                 procVars, watchVars, fjob, fsnap, fcs, foff, fbuf, fn, fchan,
                 fcancel, cpc, chold, delivered, callVars>>

\* The caller's context ends (the client goes away).
F_Cancel(f) ==
  /\ Up /\ fpc[f] \in {"read", "send", "register"} /\ ~fcancel[f]
  /\ fcancel' = [fcancel EXCEPT ![f] = TRUE]
  /\ UNCHANGED <<unitVars, shutVars, dupVars, svcVars, jobVars, procVars, watchVars, fpc, fjob, fsnap, fcs,
                 foff, fbuf, fn, fchan, cpc, chold, delivered, callVars>>

\* server.go:332: the consumer takes the next slice from the channel.
C_Recv(f) ==
  /\ Up /\ cpc[f] = "recv" /\ fchan[f] # <<>>
  /\ chold' = [chold EXCEPT ![f] = Head(fchan[f])]
  /\ fchan' = [fchan EXCEPT ![f] = Tail(@)]
  /\ cpc' = [cpc EXCEPT ![f] = "hold"]
  /\ UNCHANGED <<unitVars, shutVars, dupVars, svcVars, jobVars, procVars, watchVars, fpc, fjob, fsnap, fcs,
                 foff, fbuf, fn, fcancel, delivered, callVars>>

\* server.go:333: stream.Send reads the bytes of the slice, which are the
\* bytes b holds at that moment, or fails, on which the handler returns and
\* its deferred cancel() runs.
C_Send(f) ==
  /\ Up /\ cpc[f] = "hold"
  /\ \E sent \in BOOLEAN :
       IF sent
         THEN /\ delivered' = [delivered EXCEPT ![f] =
                                  @ \o SubSeq(fbuf[f], 1, chold[f])]
              /\ cpc' = [cpc EXCEPT ![f] = "recv"]
              /\ UNCHANGED fcancel
         ELSE /\ cpc' = [cpc EXCEPT ![f] = "done"]
              /\ fcancel' = [fcancel EXCEPT ![f] = TRUE]
              /\ UNCHANGED delivered
  /\ UNCHANGED <<unitVars, shutVars, dupVars, svcVars, jobVars, procVars, watchVars, fpc, fjob, fsnap, fcs,
                 foff, fbuf, fn, fchan, chold, callVars>>

\* server.go:329 and 332: StreamOutput has returned, the channel is closed
\* and drained, the range ends.
C_End(f) ==
  /\ Up /\ cpc[f] = "recv" /\ fchan[f] = <<>>
  /\ fpc[f] \in {"done_ok", "done_err"}
  /\ cpc' = [cpc EXCEPT ![f] = "done"]
  /\ UNCHANGED <<unitVars, shutVars, dupVars, svcVars, jobVars, procVars, watchVars, fpc, fjob, fsnap, fcs,
                 foff, fbuf, fn, fchan, fcancel, chold, delivered, callVars>>

Follow ==
  \E f \in Followers :
    \/ F_Open(f) \/ F_Read(f) \/ F_Send(f) \/ F_SendCancelled(f)
    \/ F_Register(f) \/ F_Cancel(f) \/ C_Recv(f) \/ C_Send(f) \/ C_End(f)

(***************************************************************************)
(* A reader of a job's status and exit code, as server.go:297-302 reads    *)
(* them: Job.Status() and then Job.ExitCode(), two critical sections.      *)
(***************************************************************************)
\* job.go:182-186: Status() on a job of the registry.
R_Status(j) ==
  /\ Up /\ j \in registry /\ reader.pc \in {"idle", "seen"}
  /\ reader' = [pc |-> "code", job |-> j, status |-> status[j],
                 afterStop |-> stopOk[j]]
  /\ UNCHANGED <<unitVars, shutVars, dupVars, svcVars, jobVars, procVars, watchVars, followVars, stopOk, stopErr,
                 resp, stopCodes>>

\* job.go:189-193: ExitCode().
R_Code ==
  /\ Up /\ reader.pc = "code"
  /\ reader' = [pc |-> "seen", job |-> reader.job, status |-> reader.status,
                 afterStop |-> reader.afterStop,
                 code |-> exitCode[reader.job]]
  /\ UNCHANGED <<unitVars, shutVars, dupVars, svcVars, jobVars, procVars, watchVars, followVars, stopOk, stopErr,
                 resp, stopCodes>>

Read == R_Code \/ \E j \in Jobs : R_Status(j)

(***************************************************************************)
(* The gRPC handlers Stop, Status and Output (grpc/server.go:255-364).     *)
(***************************************************************************)
\* The identities of the callers; NoUser is a context without identity.
Users == {"alice", "bob"}
NoUser == "nobody"
\* server.go:227-228: the owner of a job is the user of its Start request.
Owner(j) == "alice"

\* The job IDs a request can carry: none, a string that is no UUID, the
\* UUID of no job, and the UUID of a job (written as the job itself).
EmptyId == ""
BadId == "not-a-uuid"
StrayId == "uuid-of-no-job"
ReqIds == {EmptyId, BadId, StrayId} \cup Jobs
\* uuid.Parse succeeds.
IsUuid(id) == id \in Jobs \cup {StrayId}

\* server.go:261, 288 and 311: the guard on the job ID of a request, which
\* turns away every request whose job ID is not empty.
IdRejected(id) == id # EmptyId

\* server.go:342-364: fetchJob, as the code of its error ("OK" for none).
FetchCode(user, id) ==
  IF ~IsUuid(id) THEN "InvalidArgument"
  ELSE IF id \notin registry THEN "NotFound"
  ELSE IF Owner(id) # user THEN "NotFound"
  ELSE "OK"

\* server.go:255-268, 282-295 and 305-318: what Stop, Status and Output
\* have in common: the identity, the guard, fetchJob.
EntryCode(user, id) ==
  IF user = NoUser THEN "Unauthenticated"
  ELSE IF IdRejected(id) THEN "InvalidArgument"
  ELSE FetchCode(user, id)

\* server.go:300: the conversion uint32(j.ExitCode()) of the response, as
\* the two 16-bit halves <<high, low>> of the 32-bit word (-1 becomes
\* <<65535, 65535>>, which is 4294967295).
Uint32(x) == <<(x \div 65536) % 65536, x % 65536>>

\* grpc/convert.go:8-19: toStatus.
toStatus(s) ==
  CASE s = Running -> "STATUS_RUNNING"
    [] s = Stopped -> "STATUS_STOPPED"
    [] s = Exited -> "STATUS_EXITED"
    [] OTHER -> "STATUS_UNSPECIFIED"

\* server.go:255-280: Stop.
StopCode(user, id) ==
  IF EntryCode(user, id) # "OK" THEN EntryCode(user, id)
  ELSE IF status[id] # Running THEN "FailedPrecondition"
  ELSE "OK"

\* The Stop requests the owner sends for a job: a first one while the job
\* is Running, and the one after it.
Recorded(user, id) ==
  /\ id \in Jobs /\ user = Owner(id)
  /\ \/ Len(stopCodes[id]) = 0 /\ status[id] = Running
     \/ Len(stopCodes[id]) = 1

Rpc_Stop(user, id) ==
  /\ Up
  /\ resp' = [op |-> "Stop", code |-> StopCode(user, id)]
  /\ IF StopCode(user, id) = "OK"
       THEN /\ cancelled' = [cancelled EXCEPT ![id] = TRUE]
            /\ stopOk' = [stopOk EXCEPT ![id] = TRUE]
            /\ stopErr' = [stopErr EXCEPT ![id] = "nil"]
       ELSE UNCHANGED <<cancelled, stopOk, stopErr>>
  /\ IF Recorded(user, id)
       THEN stopCodes' = [stopCodes EXCEPT ![id] = Append(@, StopCode(user, id))]
       ELSE UNCHANGED stopCodes
  /\ UNCHANGED <<unitVars, shutVars, dupVars, svcVars, status, exitCode, sj, wpc, writer, cmdLive, cmdData,
                 contLive, placed, continued, cancelFirst, cg, procVars,
                 watchVars, followVars, reader>>

\* server.go:282-303: Status.
Rpc_Status(user, id) ==
  /\ Up
  /\ resp' = IF EntryCode(user, id) # "OK"
               THEN [op |-> "Status", code |-> EntryCode(user, id)]
               ELSE [op |-> "Status", code |-> "OK",
                     status |-> toStatus(status[id]),
                     exitCode |-> Uint32(exitCode[id])]
  /\ UNCHANGED <<unitVars, shutVars, dupVars, svcVars, jobVars, procVars, watchVars, followVars, reader,
                 stopOk, stopErr, stopCodes>>

\* server.go:305-340: Output, up to the start of the stream.
Rpc_Output(user, id) ==
  /\ Up
  /\ resp' = [op |-> "Output", code |-> EntryCode(user, id)]
  /\ UNCHANGED <<unitVars, shutVars, dupVars, svcVars, jobVars, procVars, watchVars, followVars, reader,
                 stopOk, stopErr, stopCodes>>

Rpc ==
  \E user \in Users \cup {NoUser}, id \in ReqIds :
    Rpc_Stop(user, id) \/ Rpc_Status(user, id) \/ Rpc_Output(user, id)

(***************************************************************************)
(* user.Service.User (user/user.go:16-31) and the Start handler            *)
(* (grpc/server.go:212-253).                                               *)
(***************************************************************************)
\* The contexts of a request: without peer, with a peer that has no TLS
\* information, with a TLS peer and its verified certificate chains: none,
\* an empty one, or one whose leaf has the Common Name of a user.
Ctxs == {[peer |-> FALSE, tls |-> FALSE, chains |-> <<>>],
         [peer |-> TRUE, tls |-> FALSE, chains |-> <<>>]}
        \cup {[peer |-> TRUE, tls |-> TRUE, chains |-> c] :
                c \in {<<>>, << <<>> >>, << <<"alice">> >>,
                       << <<"bob", "ca">> >>}}

\* user.go:16-31: User. The test at line 25 returns ok = false for a chain
\* with a leaf; line 29 is reached without one and indexes
\* VerifiedChains[0][0], which panics.
User(ctx) ==
  IF ~ctx.peer \/ ~ctx.tls
    THEN [panic |-> FALSE, user |-> "", ok |-> FALSE]
  ELSE IF Len(ctx.chains) > 0 /\ Len(ctx.chains[1]) > 0
    THEN [panic |-> FALSE, user |-> "", ok |-> FALSE]
  ELSE IF Len(ctx.chains) = 0 \/ Len(ctx.chains[1]) = 0
    THEN [panic |-> TRUE, user |-> "", ok |-> FALSE]
  ELSE [panic |-> FALSE, user |-> ctx.chains[1][1], ok |-> TRUE]

\* A handler calls User on the context of a request (server.go:213, 256,
\* 283, 306); a panic in the handler's goroutine ends the supervisor.
U_User(ctx) ==
  /\ Up
  /\ who' = [called |-> TRUE, ctx |-> ctx, ret |-> User(ctx)]
  /\ IF User(ctx).panic
       THEN Panic
       ELSE UNCHANGED <<crashed, cmdLive, contLive>>
  /\ UNCHANGED <<rq, xc, fsVars, unit2Vars, healthy, registry, closePc, status, exitCode, cancelled,
                 sj, wpc, writer, cmdData, placed, continued, cancelFirst,
                 cg, procVars, watchVars, followVars, callVars, shutVars,
                 dupVars>>

\* proto Limits: the fields of the limits of a request.
LimitFields == {"memory", "cpus", "disk_read_bps", "disk_write_bps"}
\* The Start requests: the command is nil, has an empty name or has a
\* name; the limits are nil or given, as the set of their non-zero fields.
StartReqs ==
  [command : {"nil", "noname", "named"}, nolimits : BOOLEAN,
   limits : {{}, {"memory"}, {"cpus", "disk_write_bps"}, LimitFields}]

\* server.go:219-226: the validation of a Start request.
\* valid.Assert(req.Command.Name != "", ...) evaluates req.Command.Name
\* before Assert is called, which is a nil dereference for a nil command.
ValidationCode(req) ==
  IF req.command = "nil" THEN "panic"
  ELSE IF req.command = "noname" THEN "InvalidArgument"
  ELSE IF req.nolimits THEN "InvalidArgument"
  ELSE "OK"

\* server.go:239: the cgroup options Start passes to StartJob: none.
StartOptions(req) == {}
\* cgroup.go:78-100: the controllers create() enables and applies, one for
\* every limit the options have set.
ControllerFiles(options) == {f \in LimitFields : f \in options}
\* The controller files written in the cgroup of a job a request has built.
CgroupFiles(j) ==
  IF cg[j] = "none" THEN {} ELSE ControllerFiles(StartOptions(rq[j].req))

\* server.go:212-240: Start up to the call of StartJob: the identity, the
\* validation, job.New, which can fail. j is the job New builds, with a
\* fresh UUID and the caller as its owner.
Rpc_Start(user, req, j) ==
  /\ Up /\ j \notin built /\ rq[j].pc = "none"
  /\ (user # NoUser /\ ValidationCode(req) = "OK") => user = Owner(j)
  /\ IF user = NoUser
       THEN /\ resp' = [op |-> "Start", code |-> "Unauthenticated"]
            /\ UNCHANGED <<rq, built, crashed, cmdLive, contLive>>
     ELSE IF ValidationCode(req) = "panic"
       THEN /\ Panic
            /\ UNCHANGED <<rq, built, resp>>
     ELSE IF ValidationCode(req) # "OK"
       THEN /\ resp' = [op |-> "Start", code |-> ValidationCode(req)]
            /\ UNCHANGED <<rq, built, crashed, cmdLive, contLive>>
     ELSE \E failAt \in 0..5 :
            /\ fds' = [fds EXCEPT ![j] = New(failAt).open]
            /\ IF New(failAt).ok
                 THEN /\ rq' = [rq EXCEPT ![j] = [pc |-> "startjob",
                                                  req |-> req]]
                      /\ built' = built \cup {j}
                      /\ UNCHANGED <<resp, crashed, cmdLive, contLive>>
                 ELSE /\ resp' = [op |-> "Start", code |-> "Internal"]
                      /\ UNCHANGED <<rq, built, crashed, cmdLive, contLive>>
  /\ (user = NoUser \/ ValidationCode(req) # "OK") => UNCHANGED fds
  /\ UNCHANGED <<who, xc, fsVars, createVars, removeVars, modVars, closeVars,
                 outRoot, cgBase, cleanPc, cleanList, dupVars, healthy,
                 registry, closePc, status, exitCode, cancelled, sj, wpc,
                 writer, cmdData, placed, continued, cancelFirst, cg,
                 procVars, watchVars, followVars, reader, stopOk, stopErr,
                 stopCodes>>

\* server.go:240-252: StartJob has returned and Start answers. j is the Job
\* New has built; StartJob has worked on a copy of it (service.go:71), so
\* that j.Status() and j.ExitCode() are what New has set.
Rpc_StartReturn(j) ==
  /\ Up /\ rq[j].pc = "startjob"
  /\ sj[j] \in {"ret_ok", "ret_err", "ret_closing", "ret_dup"}
  /\ rq' = [rq EXCEPT ![j].pc = "returned"]
  /\ resp' = IF sj[j] = "ret_ok"
               THEN [op |-> "Start", code |-> "OK",
                     status |-> toStatus(NewStatus),
                     exitCode |-> Uint32(NewExitCode),
                     limits |-> rq[j].req.limits]
               ELSE [op |-> "Start", code |-> "Internal"]
  /\ UNCHANGED <<who, xc, fsVars, unit2Vars, shutVars, dupVars, svcVars, jobVars, procVars,
                 watchVars, followVars, reader, stopOk, stopErr, stopCodes>>

Identify == \E ctx \in Ctxs : U_User(ctx)

Start ==
  \/ \E user \in Users \cup {NoUser}, req \in StartReqs, j \in Jobs :
       Rpc_Start(user, req, j)
  \/ \E j \in Jobs : Rpc_StartReturn(j)

(***************************************************************************)
(* reexec.Exec (encrypt.go:190-242) in a process of its own, as a function *)
(* of what the process finds: its descriptors 3 and 4, the two pipes, the  *)
(* log file and the target.                                                *)
(***************************************************************************)
\* fd3, fd4: the descriptor is absent or the read end of a pipe. nonblock:
\* descriptor 4 is in non-blocking mode (after exec.Cmd has passed it, it is
\* not). cont: the continue pipe gives end-of-file within the 10 seconds,
\* gives a byte, stays silent for ever, or gives end-of-file after the 10
\* seconds. cmdOk: the command pipe holds a job descriptor. logOk, startOk:
\* the log file opens, the target starts. end: how the target ends.
ExecInputs ==
  [fd3 : {"absent", "pipe"}, fd4 : {"absent", "pipe"}, nonblock : BOOLEAN,
   cont : {"eof", "byte", "silent", "late"}, cmdOk : BOOLEAN,
   logOk : BOOLEAN, startOk : BOOLEAN, end : TargetEnds]

\* encrypt.go:263-271: fd.Read in waitForContinue, with the goroutine that
\* closes fd when the 10 seconds are over. os.NewFile gives a File for an
\* absent descriptor too, and the Read fails. Close wakes a Read of a
\* descriptor in non-blocking mode only; in blocking mode the Read stays in
\* read(2) and the descriptor stays open until it returns.
ContRead(in) ==
  IF in.fd4 = "absent" THEN "EBADF"
  ELSE IF in.cont = "eof" THEN "EOF"
  ELSE IF in.cont = "byte" THEN "byte"
  ELSE IF in.nonblock THEN "closed"
  ELSE IF in.cont = "late" THEN "EOF"
  ELSE "blocked"

\* encrypt.go:272-278: the error of waitForContinue for the Read's result.
waitForContinue(r) ==
  IF r = "EOF" THEN "nil"
  ELSE IF r = "byte" THEN "errExpectedEOF"
  ELSE r

\* encrypt.go:190-242: Exec: whether the process exits, its exit code, and
\* whether it has started the target.
Exec(in) ==
  LET failed == [exited |-> TRUE, code |-> CommandFailure, ran |-> FALSE] IN
  IF in.fd3 = "absent" \/ ~in.cmdOk \/ ~in.logOk THEN failed
  ELSE IF ContRead(in) = "blocked"
    THEN [exited |-> FALSE, code |-> noExit, ran |-> FALSE]
  ELSE IF waitForContinue(ContRead(in)) # "nil" THEN failed
  ELSE IF ~in.startOk THEN failed
  ELSE [exited |-> TRUE, code |-> ExitByte(reexecExitCode(in.end)),
        ran |-> TRUE]

\* cli/reexec.go:11-18: the process runs Exec.
Exec_Run(in) ==
  /\ ~xc.called
  /\ xc' = [called |-> TRUE, in |-> in, out |-> Exec(in)]
  /\ UNCHANGED <<rq, who, fsVars, unit2Vars, svcVars, jobVars, procVars,
                 watchVars, followVars, callVars, shutVars, dupVars>>

NextExec == \E in \in ExecInputs : Exec_Run(in)

SpecExec == Init /\ [][NextExec]_vars

(***************************************************************************)
(* cgroup Service.CreateCgroup (cgroup/service.go:68-84) and Cgroup.create *)
(* (cgroup/cgroup.go:73-103) with the controllers of controller.go.        *)
(***************************************************************************)
\* The variables of the jobs, their callers and the units before this one.
jobworkerVars == <<rq, who, xc, svcVars, jobVars, procVars, watchVars,
                   followVars, callVars, shutVars, dupVars>>

\* cgroup.go:17-31: the limits of a Cgroup, as the options have set them.
CgroupLimits == [LimitFields -> 0..MaxLimit]
\* The minors of the physical disks with major 8 a walk of /dev can find.
DiskMinors == {{}, {0}, {0, 16}}

\* A test that takes a limit of zero for a limit, too.
IsAny(limit) == limit >= 0
\* cgroup.go:80, 83, 86, 89: the test that puts a controller into the set.
IsSet(limit) == limit > 0

\* cgroup.go:79-91: the controllers of the set, in the order of the tests.
ControllerSet(c) ==
  SelectSeq(<<"memory", "cpus", "disk_write_bps", "disk_read_bps">>,
            LAMBDA f : IsSet(c[f]))

\* controller.go:242-333: the lines apply() writes for a limit, each with
\* its file, the disk minor and the key: one into memory.high or cpu.max
\* (which have neither minor nor key), one for each disk minor into io.max.
ControlLines(f, minors) ==
  IF f = "memory" THEN {<<"memory.high", 0, "">>}
  ELSE IF f = "cpus" THEN {<<"cpu.max", 0, "">>}
  ELSE IF f = "disk_write_bps" THEN {<<"io.max", m, "wbps">> : m \in minors}
  ELSE {<<"io.max", m, "rbps">> : m \in minors}

\* cgroup.go:73-103: create. mkdir says whether os.Mkdir succeeds; failAt
\* is the write that fails, counting the enable and the apply of each
\* controller of the set (0: none fails). The loop returns at the first
\* error and leaves what it has written.
create(c, minors, mkdir, failAt) ==
  LET set == ControllerSet(c)
      enabled == {i \in 1..Len(set) : failAt = 0 \/ 2 * i - 1 < failAt}
      applied == {i \in 1..Len(set) : failAt = 0 \/ 2 * i < failAt}
  IN IF ~mkdir
       THEN [err |-> "create cgroup", dir |-> FALSE, enabled |-> {},
             lines |-> {}]
       ELSE [err |-> IF failAt = 0 \/ failAt > 2 * Len(set) THEN "nil"
                     ELSE IF failAt % 2 = 1 THEN "enable controller"
                     ELSE "apply controller",
             dir |-> TRUE,
             enabled |-> {set[i] : i \in enabled},
             lines |-> UNION {ControlLines(set[i], minors) : i \in applied}]

\* service.go:68-84: CreateCgroup with options that set the limits c.
Cg_CreateCgroup(c, minors, mkdir, failAt) ==
  /\ ~cgc.called
  /\ cgc' = [called |-> TRUE, limits |-> c, minors |-> minors,
             out |-> create(c, minors, mkdir, failAt)]
  /\ UNCHANGED <<jobworkerVars, fsVars, removeVars, modVars, closeVars, fds>>

NextCreate ==
  \E c \in CgroupLimits, minors \in DiskMinors, mkdir \in BOOLEAN,
     failAt \in 0..8 : Cg_CreateCgroup(c, minors, mkdir, failAt)

SpecCreate == Init /\ [][NextCreate]_vars

(***************************************************************************)
(* cgroup Service.RemoveCgroup (cgroup/service.go:93-97) and Cgroup.remove *)
(* (cgroup/cgroup.go:125-239) on a cgroup with two leaves, each made by a  *)
(* placePID, while the processes in it fork and exit.                      *)
(***************************************************************************)
\* The processes in a cgroup: the lines of its cgroup.procs.
ProcsIn(g) == {p \in 1..MaxPid : procs[p] = g}

\* The variables no step of this unit changes.
restVars == <<jobworkerVars, fsVars, createVars, modVars, closeVars, fds>>

\* A process of a leaf forks: the child starts in the cgroup of its parent.
P_Fork(p) ==
  /\ procs[p] \in leafDirs
  /\ \E q \in 1..MaxPid :
       /\ procs[q] = "unborn" /\ \A r \in 1..(q - 1) : procs[r] # "unborn"
       /\ procs' = [procs EXCEPT ![q] = procs[p]]
  /\ rm' = [rm EXCEPT !.raced = @ \/ rm.pc \notin {"idle", "done", "failed"}]
  /\ UNCHANGED <<leafDirs, cgDir, restVars>>

\* A process exits and is reaped: it is in no cgroup any more.
P_Exit(p) ==
  /\ procs[p] \in leafDirs \cup {"root"}
  /\ procs' = [procs EXCEPT ![p] = "gone"]
  /\ rm' = [rm EXCEPT !.raced = @ \/ rm.pc \notin {"idle", "done", "failed"}]
  /\ UNCHANGED <<leafDirs, cgDir, restVars>>

\* A reader that finds no PID in a leaf.
readNoPids(l) == {}
\* cgroup.go:242-263: readLeafPids scans the lines of a leaf's cgroup.procs.
readLeafPids(l) == ProcsIn(l)

\* cgroup.go:127-130 and 152-190: readPids walks the cgroup and reads the
\* cgroup.procs of every leaf. found is what the leaves held at the walk.
Rm_ReadPids ==
  /\ rm.pc = "idle"
  /\ rm' = [rm EXCEPT !.pc = "move",
                      !.pids = UNION {readLeafPids(l) : l \in leafDirs},
                      !.found = UNION {ProcsIn(l) : l \in leafDirs}]
  /\ UNCHANGED <<procs, leafDirs, cgDir, restVars>>

\* cgroup.go:134-136 and service.go:114-129: placeInRootCgroup writes the
\* PIDs one by one into the cgroup.procs of the root. The write of the PID
\* of a process that is gone fails (ESRCH), and remove returns the error.
Rm_Move ==
  /\ rm.pc = "move"
  /\ IF rm.pids = {}
       THEN rm' = [rm EXCEPT !.pc = "walk"] /\ UNCHANGED procs
       ELSE LET p == CHOOSE x \in rm.pids : \A y \in rm.pids : x <= y IN
              IF procs[p] = "gone"
                THEN rm' = [rm EXCEPT !.pc = "failed"] /\ UNCHANGED procs
                ELSE /\ procs' = [procs EXCEPT ![p] = "root"]
                     /\ rm' = [rm EXCEPT !.pids = @ \ {p},
                                          !.moved = @ \cup {p}]
  /\ UNCHANGED <<leafDirs, cgDir, restVars>>

\* cgroup.go:192-231: removeLeaves walks the cgroup and lists its leaves.
Rm_WalkLeaves ==
  /\ rm.pc = "walk"
  /\ rm' = [rm EXCEPT !.pc = "leaves", !.leaves = leafDirs]
  /\ UNCHANGED <<procs, leafDirs, cgDir, restVars>>

\* cgroup.go:232-238: unix.Rmdir on every leaf of the list. The kernel
\* refuses to remove a cgroup that has a process (EBUSY), and remove returns
\* the error.
Rm_RmLeaf ==
  /\ rm.pc = "leaves"
  /\ IF rm.leaves = {}
       THEN rm' = [rm EXCEPT !.pc = "dir"] /\ UNCHANGED leafDirs
       ELSE LET l == CHOOSE x \in rm.leaves : TRUE IN
              IF ProcsIn(l) # {}
                THEN rm' = [rm EXCEPT !.pc = "failed"] /\ UNCHANGED leafDirs
                ELSE /\ leafDirs' = leafDirs \ {l}
                     /\ rm' = [rm EXCEPT !.leaves = @ \ {l}]
  /\ UNCHANGED <<procs, cgDir, restVars>>

\* cgroup.go:144-146: unix.Rmdir on the directory of the cgroup, which the
\* kernel refuses while the cgroup has a child.
Rm_Dir ==
  /\ rm.pc = "dir"
  /\ IF leafDirs # {}
       THEN rm' = [rm EXCEPT !.pc = "failed"] /\ UNCHANGED cgDir
       ELSE rm' = [rm EXCEPT !.pc = "done"] /\ cgDir' = FALSE
  /\ UNCHANGED <<procs, leafDirs, restVars>>

NextRemove ==
  \/ \E p \in 1..MaxPid : P_Fork(p) \/ P_Exit(p)
  \/ Rm_ReadPids \/ Rm_Move \/ Rm_WalkLeaves \/ Rm_RmLeaf \/ Rm_Dir

SpecRemove == Init /\ [][NextRemove]_vars

(***************************************************************************)
(* watch.ModWatcher (watch/watch.go): Watch with its broadcast, and the    *)
(* callers of WaitUntil. The mutex is a sync.RWMutex: broadcast holds the  *)
(* read lock from its first send to its last, and the two critical         *)
(* sections of WaitUntil need the write lock.                              *)
(***************************************************************************)
\* The variables no step of the ModWatcher changes.
otherVars == <<jobworkerVars, fsVars, createVars, removeVars, closeVars, fds>>

\* watch.go:74-84: WaitUntil puts a channel with room for one signal into
\* the listeners, under the write lock.
MW_Register(w) ==
  /\ wu[w] = "idle" /\ ~bc.held
  /\ listeners' = listeners \cup {w}
  /\ wu' = [wu EXCEPT ![w] = "select"]
  /\ UNCHANGED <<modification, wres, wctx, bc, whist, otherVars>>

\* The context of a caller is cancelled.
MW_Cancel(w) ==
  /\ wu[w] \in {"idle", "select"} /\ ~wctx[w]
  /\ wctx' = [wctx EXCEPT ![w] = TRUE]
  /\ whist' = [whist EXCEPT ![w].first = IF @ = "none" THEN "ctx" ELSE @]
  /\ UNCHANGED <<listeners, modification, wu, wres, bc, otherVars>>

\* watch.go:50-68 and 103-105: a tick of Watch finds the file modified and
\* calls broadcast, which takes the read lock.
MW_Tick ==
  /\ ~bc.held
  /\ bc' = [held |-> TRUE, todo |-> listeners, cur |-> "none"]
  /\ UNCHANGED <<listeners, modification, wu, wres, wctx, whist, otherVars>>

\* watch.go:107 and 104: the range comes to the next listener, in the order
\* of the map; after the last one the read lock is released.
MW_Next ==
  /\ bc.held /\ bc.cur = "none"
  /\ IF bc.todo = {}
       THEN bc' = [bc EXCEPT !.held = FALSE]
       ELSE \E l \in bc.todo : bc' = [bc EXCEPT !.cur = l]
  /\ UNCHANGED <<listeners, modification, wu, wres, wctx, whist, otherVars>>

\* watch.go:108: listener <- struct{}{}, which waits for room in the
\* channel.
MW_Send ==
  /\ bc.held /\ bc.cur # "none" /\ modification[bc.cur] = 0
  /\ modification' = [modification EXCEPT ![bc.cur] = 1]
  /\ whist' = [whist EXCEPT ![bc.cur].first = IF @ = "none" THEN "mod" ELSE @,
                            ![bc.cur].got = TRUE]
  /\ bc' = [bc EXCEPT !.todo = @ \ {bc.cur}, !.cur = "none"]
  /\ UNCHANGED <<listeners, wu, wres, wctx, otherVars>>

\* watch.go:92-97: the select. With the context done and a signal in the
\* channel either case is chosen.
MW_Select(w) ==
  /\ wu[w] = "select"
  /\ \/ /\ wctx[w]
        /\ wres' = [wres EXCEPT ![w] = "ctx"]
        /\ UNCHANGED modification
     \/ /\ modification[w] = 1
        /\ modification' = [modification EXCEPT ![w] = 0]
        /\ wres' = [wres EXCEPT ![w] = "nil"]
  /\ wu' = [wu EXCEPT ![w] = "deferred"]
  /\ UNCHANGED <<listeners, wctx, bc, whist, otherVars>>

\* watch.go:86-90: the deferred function deletes the channel from the
\* listeners, under the write lock, and WaitUntil returns.
MW_Return(w) ==
  /\ wu[w] = "deferred" /\ ~bc.held
  /\ listeners' = listeners \ {w}
  /\ wu' = [wu EXCEPT ![w] = "returned"]
  /\ UNCHANGED <<modification, wres, wctx, bc, whist, otherVars>>

NextMod ==
  \/ \E w \in Waiters :
       MW_Register(w) \/ MW_Cancel(w) \/ MW_Select(w) \/ MW_Return(w)
  \/ MW_Tick \/ MW_Next \/ MW_Send

\* The goroutines run whenever they are not blocked; a Lock that waits
\* keeps later read locks out (sync.RWMutex), so that the deferred function
\* gets the lock once broadcast releases it, however often Watch ticks.
\* Nothing makes the file change, a caller call or a context end.
SpecMod ==
  /\ Init /\ [][NextMod]_vars
  /\ WF_vars(MW_Next) /\ WF_vars(MW_Send)
  /\ \A w \in Waiters : WF_vars(MW_Select(w)) /\ SF_vars(MW_Return(w))

(***************************************************************************)
(* fsnotify.Watcher (fsnotify/fsnotify.go) and the kernel's side of its    *)
(* inotify descriptor.                                                     *)
(***************************************************************************)
\* inotify_add_watch(2): the descriptor of the watch the file has already,
\* whatever path it was added by, or the next free one.
KernelWd(f) ==
  IF \E wd \in 1..MaxWd : kwatch[wd] = f
    THEN CHOOSE wd \in 1..MaxWd : kwatch[wd] = f
    ELSE nextWd

\* What a call of AddWatch or RemoveWatch leaves for the properties: the
\* call, its error and the watches as they were when it was made.
Returned(op, p, err) ==
  [op |-> op, path |-> p, err |-> err,
   before |-> [watches |-> watches, paths |-> paths, kwatch |-> kwatch]]

\* fsnotify.go:76-94: AddWatch. A path with an entry in watches is turned
\* away with ErrWatchExists; inotify_add_watch fails for a path whose file
\* does not exist; else both maps get the descriptor the kernel returns.
Fs_AddWatch(p) ==
  /\ IF watches[p] # 0
       THEN /\ fsRet' = Returned("add", p, "ErrWatchExists")
            /\ UNCHANGED <<watches, paths, kwatch, nextWd>>
       ELSE IF FileOf(p) \notin alive
         THEN /\ fsRet' = Returned("add", p, "add watch")
              /\ UNCHANGED <<watches, paths, kwatch, nextWd>>
         ELSE /\ KernelWd(FileOf(p)) \in 1..MaxWd
              /\ LET wd == KernelWd(FileOf(p)) IN
                   /\ kwatch' = [kwatch EXCEPT ![wd] = FileOf(p)]
                   /\ nextWd' = IF wd = nextWd THEN nextWd + 1 ELSE nextWd
                   /\ watches' = [watches EXCEPT ![p] = wd]
                   /\ paths' = [paths EXCEPT ![wd] = p]
              /\ fsRet' = Returned("add", p, "nil")
  /\ UNCHANGED <<kq, alive, jobworkerVars, unit2Vars>>

\* fsnotify.go:98-118: RemoveWatch. A path without an entry in watches is
\* turned away with ErrWatchDNE. inotify_rm_watch fails for a descriptor
\* the kernel has dropped, and the maps stay; else the kernel drops the
\* watch and queues IN_IGNORED, and the entries watches[path] and paths[wd]
\* are deleted.
Fs_RemoveWatch(p) ==
  /\ IF watches[p] = 0
       THEN /\ fsRet' = Returned("remove", p, "ErrWatchDNE")
            /\ UNCHANGED <<watches, paths, kwatch, kq>>
       ELSE IF kwatch[watches[p]] = "none"
         THEN /\ fsRet' = Returned("remove", p, "remove watch")
              /\ UNCHANGED <<watches, paths, kwatch, kq>>
         ELSE /\ Len(kq) < MaxQueue
              /\ LET wd == watches[p] IN
                   /\ kwatch' = [kwatch EXCEPT ![wd] = "none"]
                   /\ kq' = Append(kq, [wd |-> wd, deleteSelf |-> FALSE])
                   /\ watches' = [watches EXCEPT ![p] = 0]
                   /\ paths' = [paths EXCEPT ![wd] = ""]
              /\ fsRet' = Returned("remove", p, "nil")
  /\ UNCHANGED <<nextWd, alive, jobworkerVars, unit2Vars>>

\* A file is deleted. The kernel queues IN_DELETE_SELF for its watch and
\* drops the watch.
Fs_Delete(f) ==
  /\ f \in alive
  /\ alive' = alive \ {f}
  /\ IF \E wd \in 1..MaxWd : kwatch[wd] = f
       THEN /\ Len(kq) < MaxQueue
            /\ kq' = Append(kq, [wd |-> KernelWd(f), deleteSelf |-> TRUE])
            /\ kwatch' = [kwatch EXCEPT ![KernelWd(f)] = "none"]
       ELSE UNCHANGED <<kq, kwatch>>
  /\ fsRet' = [op |-> "delete"]
  /\ UNCHANGED <<watches, paths, nextWd, jobworkerVars, unit2Vars>>

\* fsnotify.go:154 and 173-174: raw := (*unix.InotifyEvent)(unsafe.Pointer(&b))
\* with b the slice the event was read into. &b is the address of the slice
\* header, so that raw.Wd and raw.Mask are the two halves of the address of
\* the buffer and not the fields of the event: a number that is no watch
\* descriptor (0 here), and a mask without IN_DELETE_SELF.
Decode(ev) == [wd |-> 0, deleteSelf |-> FALSE]

\* fsnotify.go:155-186: readEvents, while it runs, reads one event and, for IN_DELETE_SELF
\* on a descriptor with an entry in paths, deletes the entries of both maps.
Fs_ReadEvent ==
  /\ kq # <<>> /\ ~closed /\ ~wfault
  /\ kq' = Tail(kq)
  /\ LET raw == Decode(Head(kq)) IN
       IF raw.wd \in 1..MaxWd /\ paths[raw.wd] # "" /\ raw.deleteSelf
         THEN /\ paths' = [paths EXCEPT ![raw.wd] = ""]
              /\ watches' = [watches EXCEPT ![paths[raw.wd]] = 0]
         ELSE UNCHANGED <<watches, paths>>
  /\ UNCHANGED <<kwatch, nextWd, alive, fsRet, jobworkerVars, unit2Vars>>

NextWatch ==
  \/ \E p \in WatchPaths : Fs_AddWatch(p) \/ Fs_RemoveWatch(p)
  \/ \E f \in Files : Fs_Delete(f)
  \/ Fs_ReadEvent

SpecWatch == Init /\ [][NextWatch]_vars

\* The variables no step of Close changes.
openVars == <<jobworkerVars, fsVars, createVars, removeVars, modVars, fds>>

\* fsnotify.go:121-123 and 132-139: Close returns at once when done is
\* closed already.
Cl_Check(c) ==
  /\ ~wfault /\ clpc[c] \in {"idle", "returned"}
  /\ clpc' = [clpc EXCEPT ![c] = IF done THEN "returned" ELSE "close"]
  /\ UNCHANGED <<done, closed, wfault, openVars>>

\* fsnotify.go:125: close(w.done), which panics on a channel that is
\* closed.
Cl_CloseDone(c) ==
  /\ ~wfault /\ clpc[c] = "close"
  /\ IF done
       THEN wfault' = TRUE /\ UNCHANGED <<done, clpc>>
       ELSE /\ done' = TRUE
            /\ clpc' = [clpc EXCEPT ![c] = "wait"]
            /\ UNCHANGED wfault
  /\ UNCHANGED <<closed, openVars>>

\* fsnotify.go:127-128: <-w.closed, and Close returns.
Cl_Wait(c) ==
  /\ ~wfault /\ clpc[c] = "wait" /\ closed
  /\ clpc' = [clpc EXCEPT ![c] = "returned"]
  /\ UNCHANGED <<done, closed, wfault, openVars>>

\* fsnotify.go:144-158 and 188-190: with done closed the file is closed
\* under the Read, readEvents finds isDone() and returns, and its deferred
\* functions close Events and closed.
Ev_Stop ==
  /\ ~wfault /\ done /\ ~closed
  /\ closed' = TRUE
  /\ UNCHANGED <<done, clpc, wfault, openVars>>

\* The Watcher with one path, and the callers of Close.
NextClose ==
  \/ Fs_AddWatch("b") \/ Fs_RemoveWatch("b") \/ Fs_ReadEvent
  \/ \E c \in Closers : Cl_Check(c) \/ Cl_CloseDone(c) \/ Cl_Wait(c)
  \/ Ev_Stop

SpecClose == Init /\ [][NextClose]_vars

(***************************************************************************)
(* A second call of Service.StartJob with the Job of another call: its own *)
(* copy of the Job value (service.go:71), whose pointer fields (the mutex, *)
(* the context, the exec.Cmd, the pipes) are the ones of the first copy.   *)
(* Of the two calls, the one whose exec.Cmd.Start runs first is the call   *)
(* of the SJ_ actions.                                                     *)
(***************************************************************************)
\* service.go:72-74: the isHealthy check.
D_Check(j) ==
  /\ Up /\ dpc[j] = "new" /\ j \in built
  /\ dpc' = [dpc EXCEPT ![j] = IF healthy THEN "checked" ELSE "ret_closing"]
  /\ UNCHANGED <<unitVars, svcVars, jobVars, procVars, watchVars, followVars, callVars,
                 shutVars, dcg, held>>

\* service.go:77-79: the duplicate check.
D_Load(j) ==
  /\ Up /\ dpc[j] = "checked"
  /\ dpc' = [dpc EXCEPT ![j] = IF j \in registry THEN "ret_dup" ELSE "loaded"]
  /\ UNCHANGED <<unitVars, svcVars, jobVars, procVars, watchVars, followVars, callVars,
                 shutVars, dcg, held>>

\* service.go:80: the Store.
D_Store(j) ==
  /\ Up /\ dpc[j] = "loaded"
  /\ dpc' = [dpc EXCEPT ![j] = "stored"]
  /\ registry' = registry \cup {j}
  /\ held' = [held EXCEPT ![j] = "dup"]
  /\ UNCHANGED <<unitVars, healthy, closePc, crashed, jobVars, procVars, watchVars,
                 followVars, callVars, shutVars, dcg>>

\* service.go:82-85: CreateCgroup makes a cgroup with an ID of its own.
D_CreateCgroup(j) ==
  /\ Up /\ dpc[j] = "stored"
  /\ \E ok \in MkdirOutcomes :
       IF ok
         THEN /\ dcg' = [dcg EXCEPT ![j] = "created"]
              /\ dpc' = [dpc EXCEPT ![j] = "cgroup"]
         ELSE /\ dpc' = [dpc EXCEPT ![j] = "ret_err"]
              /\ UNCHANGED dcg
  /\ UNCHANGED <<unitVars, svcVars, jobVars, procVars, watchVars, followVars, callVars,
                 shutVars, held>>

\* service.go:87-89 and job.go:220-222: exec.Cmd.Start on the exec.Cmd the
\* other call has started fails ("exec: already started"), and StartJob
\* returns the error.
D_Start(j) ==
  /\ Up /\ dpc[j] = "cgroup" /\ child[j] # "none"
  /\ dpc' = [dpc EXCEPT ![j] = "ret_err"]
  /\ UNCHANGED <<unitVars, svcVars, jobVars, procVars, watchVars, followVars, callVars,
                 shutVars, dcg, held>>

Dup ==
  \E j \in Jobs :
    D_Check(j) \/ D_Load(j) \/ D_Store(j) \/ D_CreateCgroup(j) \/ D_Start(j)

(***************************************************************************)
(* cgroup Service.Cleanup (cgroup/service.go:101-111 and 166-221), which   *)
(* runServe calls after job Service.Close (cli/serve.go:42-57).            *)
(***************************************************************************)
\* The cgroups of the model: the one of each StartJob call of each job.
Cgroups == Jobs \X {"main", "dup"}
CgState(c) == IF c[2] = "main" THEN cg[c[1]] ELSE dcg[c[1]]

\* cgroup/service.go:169-206: the walk lists the cgroups that exist.
Cg_Walk ==
  /\ Up /\ closePc = "done" /\ cleanPc = "idle"
  /\ cleanList' = {c \in Cgroups : CgState(c) = "created"}
  /\ cleanPc' = "walked"
  /\ UNCHANGED <<unitVars, svcVars, jobVars, procVars, watchVars, followVars, callVars,
                 built, outRoot, cgBase, dupVars>>

\* cgroup/service.go:208-220: RemoveCgroup for every cgroup of the list,
\* then unix.Rmdir on the base directory. RemoveCgroup fails on a cgroup
\* that a waiter has removed since the walk, and Cleanup returns with the
\* cgroups it had not come to yet left in place; Rmdir fails while a cgroup
\* made since the walk is in the base directory.
Cg_Remove ==
  /\ Up /\ cleanPc = "walked"
  /\ LET live == {c \in cleanList : CgState(c) = "created"} IN
     \E gone \in SUBSET live :
       /\ gone = live \/ live # cleanList
       /\ cg' = [j \in Jobs |-> IF <<j, "main">> \in gone
                                  THEN "removed" ELSE cg[j]]
       /\ dcg' = [j \in Jobs |-> IF <<j, "dup">> \in gone
                                   THEN "removed" ELSE dcg[j]]
       /\ LET left == {c \in Cgroups : CgState(c) = "created"} \ gone IN
            IF live = cleanList /\ left = {}
              THEN cgBase' = FALSE /\ cleanPc' = "done"
              ELSE cgBase' = cgBase /\ cleanPc' = "failed"
  /\ UNCHANGED <<unitVars, svcVars, status, exitCode, cancelled, sj, wpc, writer,
                 cmdLive, cmdData, contLive, placed, continued, cancelFirst,
                 procVars, watchVars, followVars, callVars, built, outRoot,
                 cleanList, dpc, held>>

Shutdown == Cg_Walk \/ Cg_Remove

(***************************************************************************)
(* Specifications. Spec: the jobs of the Service with callers of StopJob,  *)
(* Close and the status readers. SpecStream: the jobs with followers.      *)
(* SpecRpc: the jobs with clients of the gRPC handlers.                    *)
(***************************************************************************)
Next == Lifecycle \/ Read

Spec == Init /\ [][Next]_vars

\* The steps that are taken once they can be: the Go scheduler runs every
\* goroutine that is not blocked (the rest of a StartJob call, the writer,
\* the kill of exec.CommandContext, the waiter, the broadcaster, the range
\* of Close, the second read of a reader) and the kernel runs the re-exec
\* child, whose wait for the continue signal ends after ten seconds at the
\* latest. Nothing makes a caller call, the target write or end, or a
\* foreign signal arrive.
Fairness ==
  /\ \A j \in Jobs :
       /\ WF_vars(SJ_Load(j)) /\ WF_vars(SJ_Store(j))
       /\ WF_vars(SJ_CreateCgroup(j))
       /\ WF_vars(SJ_Start(j)) /\ WF_vars(SJ_Place(j))
       /\ WF_vars(SJ_Continue(j)) /\ WF_vars(Writer(j))
       /\ WF_vars(Child_ReadCmd(j))
       /\ WF_vars(Child_Reap(j)) /\ WF_vars(Kill(j))
       /\ WF_vars(W_Wait(j)) /\ WF_vars(W_SetCode(j))
       /\ WF_vars(W_Remove(j)) /\ WF_vars(W_Cleanup(j))
       /\ WF_vars(B_Event(j)) /\ WF_vars(B_Exit(j))
  /\ WF_vars(Close_Range) /\ WF_vars(R_Code)

SpecLive == Init /\ [][Next]_vars /\ Fairness

NextSvc == Lifecycle \/ Dup \/ Shutdown

SpecSvc == Init /\ [][NextSvc]_vars

NextStream == Lifecycle \/ Follow

SpecStream == Init /\ [][NextStream]_vars

\* The steps of a follower that are taken once they can be: StreamOutput
\* runs in a goroutine of its own (server.go:325-330), which the scheduler
\* runs whenever it is not blocked, and so does the consumer's range when
\* the channel is closed. Nothing makes the consumer receive or the client
\* go away.
FollowFairness ==
  \A f \in Followers :
    /\ WF_vars(F_Read(f)) /\ WF_vars(F_Send(f)) /\ WF_vars(F_SendCancelled(f))
    /\ WF_vars(F_Register(f)) /\ WF_vars(C_End(f))

SpecFollowLive == Init /\ [][NextStream]_vars /\ Fairness /\ FollowFairness

NextRpc == Lifecycle \/ Rpc

SpecRpc == Init /\ [][NextRpc]_vars

\* The jobs and the Start handler.
NextStart == Lifecycle \/ Start

SpecStart == Init /\ [][NextStart]_vars

\* The jobs and the identity lookup of the handlers.
NextUser == Lifecycle \/ Identify

SpecUser == Init /\ [][NextUser]_vars

(***************************************************************************)
(* Properties.                                                             *)
(***************************************************************************)
\* a is a prefix of b.
IsPrefix(a, b) == Len(a) <= Len(b) /\ a = SubSeq(b, 1, Len(a))

\* The status changes the lifecycle graph allows.
StatusEdges == {<<Pending, Running>>, <<Running, Stopped>>,
                <<Running, Exited>>}

\* C1: the target command of a job has been started only if PlaceInCgroup
\* succeeded for the job, StartJob then closed the continue pipe, and the
\* job was not cancelled before that close. (Spec)
C1_TargetOnlyAfterPlacement ==
  \A j \in Jobs :
    target[j] # "none" => placed[j] /\ continued[j] /\ ~cancelFirst[j]

\* C2: every step leaves a job's status as it is or moves it along
\* Pending -> Running -> (Stopped | Exited); no step moves it back, and no
\* step changes a status that is Stopped or Exited. (Spec)
C2_StatusMonotonic ==
  [][\A j \in Jobs :
       status'[j] = status[j] \/ <<status[j], status'[j]>> \in StatusEdges]_vars

\* C2, its case: a job that StopJob cancelled while Running, that Close has
\* ranged over, and whose waiter has run to its end with a terminal status.
C2_Reached ==
  \E j \in Jobs :
    /\ stopOk[j] /\ closePc = "done" /\ wpc[j] = "done"
    /\ status[j] \in Terminal

\* C3: at every moment the bytes a follower's consumer has passed on are a
\* prefix of the job's log. (SpecStream)
C3_DeliveredIsPrefix ==
  \A f \in Followers : IsPrefix(delivered[f], log[fjob[f]])

\* C4: when StreamOutput has returned nil for a follower whose context is
\* not cancelled, the job is Stopped or Exited, and once the consumer has
\* drained the channel and the target writes no more, the bytes delivered
\* are the whole log. (SpecStream)
C4_NilReturnMeansWholeLog ==
  \A f \in Followers :
    (fpc[f] = "done_ok" /\ ~fcancel[f]) =>
      /\ status[fjob[f]] \in Terminal
      /\ (cpc[f] = "done" /\ target[fjob[f]] # "running")
           => delivered[f] = log[fjob[f]]

\* C5: a follower that is not cancelled and has stopped for good has read
\* every byte of the log: it never stays behind at end-of-file while the
\* log holds bytes it has not delivered. (SpecStream)
C5_NoByteLeftBehind ==
  \A f \in Followers :
    (fpc[f] = "fault" /\ ~fcancel[f]) => foff[f] = Len(log[fjob[f]])

\* C6: whatever the followers do, a broadcaster with an event to broadcast
\* can finish the broadcast, and a waiter whose child has ended can update
\* the job's status. (SpecStream)
C6_BroadcasterNeverStalls ==
  \A j \in Jobs :
    /\ (bpc[j] = "run" /\ evPending[j]) => ENABLED B_Event(j)
    /\ (wpc[j] = "waiting" /\ child[j] = "exited") => ENABLED W_Wait(j)

\* C7: a reader that has seen the status Exited and then read the exit
\* code has read a code >= 0. (Spec)
C7_ExitedCodeNonNegative ==
  (reader.pc = "seen" /\ reader.status = Exited) => reader.code >= 0

C9_StoppedAfterStop ==
  (reader.pc = "seen" /\ reader.afterStop) =>
    /\ toStatus(reader.status) = "STATUS_STOPPED"
    /\ reader.code = noExit

\* C10: of two Stop requests of the owner for a job, the first sent while
\* the job is Running, the second is answered FailedPrecondition. (SpecRpc)
C10_SecondStopFailedPrecondition ==
  \A j \in Jobs :
    Len(stopCodes[j]) = 2 => stopCodes[j][2] = "FailedPrecondition"

\* No process of the job runs: neither the re-exec child nor the target.
NoProcess(j) == ~ChildAlive(j) /\ target[j] # "running"

\* C11: once a job is cancelled while its child is alive (by StopJob, by
\* Close, or by StartJob after a failed placement), eventually no process
\* of the job is running. (SpecLive)
C11_CancelKillsAll ==
  \A j \in Jobs : (cancelled[j] /\ ChildAlive(j)) ~> NoProcess(j)

\* C12: a target has run only in a job whose cgroup was created, and every
\* step that removes a job's cgroup is taken when no process of the job is
\* running, neither the child nor the target. (Spec)
C12_CgroupOutlivesProcesses ==
  [][\A j \in Jobs :
       /\ target'[j] # "none" => cg'[j] # "none"
       /\ (cg[j] # "removed" /\ cg'[j] = "removed") => NoProcess(j)]_vars

\* A StartJob call at position pc has passed the duplicate check.
Passed(pc) == pc \notin {"new", "checked", "ret_closing", "ret_dup"}

\* C13: of two StartJob calls that carry the same job ID at most one
\* passes the duplicate check, and the call that is second to a call that
\* passed creates no cgroup. (SpecSvc)
C13_OneCallPasses ==
  \A j \in Jobs :
    /\ ~(Passed(sj[j]) /\ Passed(dpc[j]))
    /\ Passed(sj[j]) => dcg[j] = "none"

\* C14: once Close has returned, every job of the registry is cancelled,
\* and a StartJob call that begins after Close has returned ends with
\* ErrServiceClosing and adds nothing to the registry. (Spec)
C14_NothingSurvivesClose ==
  [][\A j \in Jobs :
       /\ (closePc' = "done" /\ j \in registry') => cancelled'[j]
       /\ (closePc = "done" /\ sj[j] = "new" /\ sj'[j] # "new")
            => (sj'[j] = "ret_closing" /\ registry' = registry)]_vars

\* C15: when the shutdown sequence is over (Close has returned and Cleanup
\* after it), the output root directory and the cgroup base directory do
\* not exist. (SpecSvc)
C15_ShutdownLeavesNothing ==
  cleanPc \in {"done", "failed"} => (~outRoot /\ ~cgBase)

\* The job is over and holds nothing: its status is Stopped or Exited, its
\* cgroup is not in place, its pipes are closed and its watcher's
\* broadcaster has returned.
Released(j) ==
  /\ status[j] \in Terminal /\ cg[j] # "created"
  /\ ~cmdLive[j] /\ ~contLive[j] /\ bpc[j] = "done"

\* C16: when StartJob has returned an error for a job it had put into the
\* registry (CreateCgroup, the child's launch, the placement or the
\* continue signal failed), the job is eventually Stopped or Exited with
\* its cgroup, pipes and watcher released. (SpecLive)
C16_FailedStartIsCleanedUp ==
  \A j \in Jobs : (sj[j] = "ret_err") ~> Released(j)

\* C17: a job that is Running when its child process has ended becomes
\* Stopped or Exited and has its cgroup removed, eventually, whatever the
\* wait on the child reports. (SpecLive)
C17_WaiterClassifies ==
  \A j \in Jobs :
    (status[j] = Running /\ child[j] = "exited")
      ~> (status[j] \in Terminal /\ cg[j] = "removed")

\* C18: the waiter makes a job Stopped only when the job's supervision scope
\* is cancelled already, and Exited only when the child has ended by itself
\* with an exit code. (Spec)
C18_StoppedMeansCancelled ==
  [][\A j \in Jobs :
       /\ (status[j] # Stopped /\ status'[j] = Stopped) => cancelled[j]
       /\ (status[j] # Exited /\ status'[j] = Exited)
            => (child[j] = "exited" /\ childExit[j] # noExit)]_vars

\* The child runs, or it has ended and the waiter has not collected it yet:
\* signal 0 still reaches the process.
Unreaped(j) == ChildAlive(j) \/ (child[j] = "exited" /\ wpc[j] = "waiting")

\* C19: in every state a job whose status is Running has a child process
\* that the waiter has not collected. (Spec)
C19_RunningHasLiveChild ==
  \A j \in Jobs : status[j] = Running => Unreaped(j)

\* C20: a Stop, Status or Output request for a registered job from a caller
\* who is not the job's owner is answered NotFound, the answer for an ID
\* that is not in the registry, and changes nothing of the service, the
\* jobs and the processes. (SpecRpc)
C20_StrangerSeesNotFound ==
  [][\A user \in Users, id \in Jobs :
       ( /\ id \in registry /\ user # Owner(id)
         /\ Rpc_Stop(user, id) \/ Rpc_Status(user, id) \/ Rpc_Output(user, id) )
         => /\ resp'.code = "NotFound"
            /\ resp'.code = EntryCode(user, StrayId)
            /\ UNCHANGED <<svcVars, jobVars, procVars>>]_vars

\* C22: a Stop, Status or Output request of an authenticated caller is
\* answered InvalidArgument exactly when its job ID is empty or is no UUID;
\* for the ID of a job of the caller the answer is not InvalidArgument.
\* (SpecRpc)
C22_InvalidArgumentIffBadId ==
  [][\A user \in Users, id \in ReqIds :
       (Rpc_Stop(user, id) \/ Rpc_Status(user, id) \/ Rpc_Output(user, id))
         => (resp'.code = "InvalidArgument" <=> ~IsUuid(id))]_vars

\* C27: StopJob returns ErrJobNotFound for an ID that is not in the
\* registry and nil otherwise; it changes no status and no exit code; it
\* leaves the supervision scope of a job that is unknown or not Running as
\* it is, and the scope of a Running job is cancelled after it. (Spec)
C27_StopJobContract ==
  [][\A j \in Jobs :
       StopJob(j) =>
         /\ stopErr'[j] = (IF j \in registry THEN "nil" ELSE "ErrJobNotFound")
         /\ status' = status /\ exitCode' = exitCode
         /\ (j \notin registry \/ JobStatus(j) # Running)
              => cancelled' = cancelled
         /\ (j \in registry /\ JobStatus(j) = Running) => cancelled'[j]]_vars

\* C27, its case: StopJob has found the job in the registry, Running, has
\* cancelled its supervision scope and has returned nil; the job is still
\* Running.
C27_Reached ==
  \E j \in Jobs : stopErr[j] = "nil" /\ stopOk[j] /\ status[j] = Running

\* C28: the re-exec child that exits after its target has ended exits with
\* the target's exit code, and with CommandFailure (100) when the target
\* was killed by a signal. (Spec)
C28_ChildExitsWithTargetCode ==
  [][\A j \in Jobs :
       ( /\ child[j] = "target" /\ target[j] = "exited"
         /\ child'[j] = "exited" /\ childExit'[j] # noExit )
         => childExit'[j] = (IF targetEnd[j] = Signaled THEN CommandFailure
                                                         ELSE targetEnd[j])]_vars

\* C26: a follower that attaches to a job that is Stopped or Exited, and
\* whose context is not cancelled, never goes to wait on the watcher, and
\* when StreamOutput has returned nil, the consumer has drained the channel
\* and the target writes no more, the bytes delivered are the whole log.
\* (SpecStream)
C26_LateFollowerGetsWholeLog ==
  \A f \in Followers :
    (fpc[f] # "idle" /\ fsnap[f] \in Terminal /\ ~fcancel[f]) =>
      /\ fpc[f] \notin {"register", "fault"}
      /\ (fpc[f] = "done_ok" /\ cpc[f] = "done"
            /\ target[fjob[f]] # "running")
           => delivered[f] = log[fjob[f]]

\* What the identity of a context is: it has one when the connection
\* carries a verified chain with a leaf certificate, whose Common Name it is.
HasIdentity(ctx) ==
  ctx.peer /\ ctx.tls /\ Len(ctx.chains) > 0 /\ Len(ctx.chains[1]) > 0

\* C21: User returns ok = true with the Common Name of the leaf exactly for
\* a context with a non-empty verified chain, and returns ok = false, with
\* no panic, for every other context. (SpecUser)
C21_IdentityIffVerifiedChain ==
  who.called =>
    /\ ~who.ret.panic
    /\ who.ret.ok <=> HasIdentity(who.ctx)
    /\ who.ret.ok => who.ret.user = who.ctx.chains[1][1]

\* Start requests the validation must turn away.
Invalid(req) == req.command \in {"nil", "noname"} \/ req.nolimits

\* C23: a Start request of an authenticated caller with a nil command, an
\* empty command name or nil limits is answered InvalidArgument and builds
\* no job and changes nothing of the service, the jobs and the processes.
\* (SpecStart)
C23_InvalidStartIsRejected ==
  [][\A user \in Users, req \in StartReqs, j \in Jobs :
       (Invalid(req) /\ Rpc_Start(user, req, j))
         => /\ resp'.op = "Start" /\ resp'.code = "InvalidArgument"
            /\ UNCHANGED <<built, rq, svcVars, jobVars, procVars>>]_vars

\* C24: the Start response of a job, which is Pending for its caller,
\* reports the status PENDING. (SpecStart)
C24_StartReportsPending ==
  (resp.op = "Start" /\ resp.code = "OK") => resp.status = "STATUS_PENDING"

\* C25: when the target of a job that a Start request has built runs, the
\* controller files written in the job's cgroup are those of the non-zero
\* limits of the request. (SpecStart)
C25_RequestLimitsApplied ==
  \A j \in Jobs :
    (rq[j].pc # "none" /\ target[j] = "running" /\ cg[j] = "created")
      => CgroupFiles(j) = rq[j].req.limits

\* C29: the re-exec child starts the target only when the continue pipe has
\* given a clean end-of-file within the 10 seconds and descriptors 3 and 4
\* are there; with a byte read, with 10 seconds gone without end-of-file or
\* with one of the descriptors absent it exits with 100 and has not
\* started the target. (SpecExec)
C29_TargetOnlyOnCleanEof ==
  xc.called =>
    LET clean == /\ xc.in.fd3 = "pipe" /\ xc.in.fd4 = "pipe"
                 /\ xc.in.cont = "eof"
    IN /\ xc.out.ran => clean
       /\ ~clean => /\ xc.out.exited /\ xc.out.code = CommandFailure
                     /\ ~xc.out.ran

\* C30: after any AddWatch, RemoveWatch and kernel events the two maps of
\* the Watcher are inverse of each other: watches[p] = wd if and only if
\* paths[wd] = p. (SpecWatch)
C30_MapsAreInverse ==
  \A p \in WatchPaths, wd \in 1..MaxWd : watches[p] = wd <=> paths[wd] = p

\* C31: AddWatch of a path that has an entry in the watches fails with
\* ErrWatchExists and RemoveWatch of a path that has none fails with
\* ErrWatchDNE, and neither changes the Watcher's maps or the kernel's
\* watches; a RemoveWatch that follows a successful AddWatch of the same
\* path leaves the maps and the kernel's watches as they were before the
\* AddWatch. (SpecWatch)
C31_WatchErrorsAndUndo ==
  [][\A p \in WatchPaths :
       /\ Fs_AddWatch(p) /\ watches[p] # 0
            => /\ fsRet'.err = "ErrWatchExists"
               /\ UNCHANGED <<watches, paths, kwatch>>
       /\ Fs_RemoveWatch(p) /\ watches[p] = 0
            => /\ fsRet'.err = "ErrWatchDNE"
               /\ UNCHANGED <<watches, paths, kwatch>>
       /\ (/\ Fs_RemoveWatch(p)
           /\ fsRet.op = "add" /\ fsRet.path = p /\ fsRet.err = "nil")
            => /\ watches' = fsRet.before.watches
               /\ paths' = fsRet.before.paths
               /\ kwatch' = fsRet.before.kwatch]_vars

\* C32: a CreateCgroup that returns without error has made the directory
\* and has enabled and applied a controller for exactly the limits that are
\* not zero: memory.high is written if and only if memory > 0, cpu.max if
\* and only if cpus > 0, the write limit in io.max (for every disk minor) if
\* and only if disk_write_bps > 0, the read limit if and only if
\* disk_read_bps > 0; with all limits zero it makes the directory and
\* writes nothing. (SpecCreate)
C32_ControllersForNonZeroLimits ==
  (cgc.called /\ cgc.out.err = "nil") =>
    LET nonzero == {f \in LimitFields : cgc.limits[f] > 0} IN
      /\ cgc.out.dir
      /\ cgc.out.enabled = nonzero
      /\ cgc.out.lines = UNION {ControlLines(f, cgc.minors) : f \in nonzero}
      /\ nonzero = {} => cgc.out.enabled = {} /\ cgc.out.lines = {}

\* A CreateCgroup with some limits set and others zero has returned without
\* error, on a machine that has disks.
C32_Reached ==
  /\ cgc.called /\ cgc.out.err = "nil" /\ cgc.minors # {}
  /\ cgc.limits["memory"] > 0 /\ cgc.limits["cpus"] = 0
  /\ cgc.limits["disk_write_bps"] > 0 /\ cgc.limits["disk_read_bps"] = 0

C34_CancelledFollowerReturns ==
  \A f \in Followers : fcancel[f] ~> fpc[f] \in {"done_ok", "done_err"}

\* C35: WaitUntil chooses to return nil only when a signal was sent to its
\* listener after it was registered; once it has returned its listener is
\* not in the listeners; and a call whose context is cancelled before any
\* signal is sent to it returns the context's error. (SpecMod)
C35_WaitUntilReturns ==
  /\ [](\A w \in Waiters : wres[w] = "nil" => whist[w].got)
  /\ [](\A w \in Waiters : wu[w] = "returned" => w \notin listeners)
  /\ \A w \in Waiters :
       whist[w].first = "ctx" ~> (wu[w] = "returned" /\ wres[w] = "ctx")

\* C36: a follower that was attached while the job was Running and reads
\* end-of-file when the job is Stopped or Exited, its context not
\* cancelled, returns nil at that read: the status it tests there is the
\* status the job has then. (SpecStream)
C36_FollowerSeesTerminalStatus ==
  [][\A f \in Followers :
       (/\ F_Read(f)
        /\ fsnap[f] = Running
        /\ foff[f] = Len(log[fjob[f]])
        /\ status[fjob[f]] \in Terminal
        /\ ~fcancel[f])
         => fpc'[f] = "done_ok"]_vars

\* C37: once StartJob has returned for a job, the Job value its caller has
\* passed and the Job FetchJob returns for the ID have the same status and
\* the same exit code. (Spec)
C37_CallerAndRegistryAgree ==
  \A j \in Jobs :
    (sj[j] = "ret_ok" /\ j \in registry)
      => /\ CallerStatus(j) = status[j]
         /\ CallerExitCode(j) = exitCode[j]

\* C38: the listener set of every job New has built exists: the step of a
\* follower that registers its channel at end-of-file of a Running job
\* faults neither the follower nor the supervisor. (SpecStream)
C38_RegisterDoesNotFault ==
  [][\A f \in Followers :
       F_Register(f) => (fpc'[f] # "fault" /\ ~crashed')]_vars

\* C39: whatever the calls of Close, one after another or at the same
\* time, no goroutine of the Watcher panics, and a call of Close returns
\* only when readEvents has returned and Events is closed. (SpecClose)
C39_CloseIsRepeatable ==
  [][/\ ~wfault'
     /\ \A c \in Closers :
          (clpc[c] # "returned" /\ clpc'[c] = "returned") => closed]_vars

\* C40: while the supervisor runs, a job for which New has failed or was
\* never called has no pipe end and no watcher of New open, and neither has
\* a job whose cleanup() has run. (SpecStart)
C40_NothingOpenAfterCleanup ==
  \A j \in Jobs :
    (Up /\ (j \notin built \/ wpc[j] = "done")) => fds[j] = {}

====
